---- MODULE Spec2Model ----
(***************************************************************************)
(* Model of the cardano-connector-go provider adapters (Blockfrost,        *)
(* Maestro, Kupmios, UTxORPC): the confirmation poller (AwaitTx), the      *)
(* listing operations with their pagination loops, GetUtxoByUnit and the   *)
(* output-reference lookups (GetUtxosByOutRef).                            *)
(*                                                                         *)
(* Adapters are stateless, so one public operation is modelled at a time:  *)
(* every Start action requires that no other operation is in progress.     *)
(* A backend is the environment: its answers are drawn from small sets.    *)
(***************************************************************************)
EXTENDS Integers, Sequences, FiniteSets, TLC

VARIABLES
    ctxDone,      \* the caller's context has been cancelled (ctx.Done() is closed)
    awProvider,   \* AwaitTx: the adapter whose AwaitTx is running ("none" when idle)
    awPc,         \* AwaitTx: "idle" | "select" | "request" | "settle" | "returned"
    awInterval,   \* AwaitTx: the effective checkInterval in seconds
    tickerC,      \* AwaitTx: ticker.C holds a tick (a channel of capacity 1)
    awRet,        \* AwaitTx: the (bool, error) pair returned
    awLog,        \* AwaitTx: the existence checks issued so far, with their answers
    awCancelPc,   \* AwaitTx: where the poller stood when the context was cancelled
    lsProvider,   \* listing: the adapter whose operation is running ("none" when idle)
    lsOp,         \* listing: "GetUtxosByAddress" | "GetUtxosWithUnit" | "GetUtxoByUnit"
    lsPc,         \* listing: "idle" | "holders" | "paging" | "adapt" | "returned"
    lsBackend,    \* listing: what the backend holds and how it answers
    page,         \* listing: Blockfrost's page counter
    cursor,       \* listing: Maestro's NextCursor of the last response
    lsAcc,        \* listing: the items accumulated so far (allBfUtxos / utxos)
    lsReq,        \* listing: the page or cursor of every request sent, in order
    lsResp,       \* listing: the NextCursor of every response received, in order
    lsAux,        \* listing: the script and datum lookups the adapter made, in order
    lsRet,        \* listing: the (utxos, error) pair returned
    orProvider,   \* out-refs: the adapter whose GetUtxosByOutRef is running
    orPc,         \* out-refs: "idle" | "collect" | "loop" | "request" | "returned"
    outRefs,      \* out-refs: the references asked for, in request order
    orBackend,    \* out-refs: what the backend knows of every transaction
    task,         \* out-refs: Blockfrost's goroutines, one per distinct tx hash
    resultChan,   \* out-refs: Blockfrost's buffered channel of fetch results
    received,     \* out-refs: the results Blockfrost's collector has received (i)
    txUtxosMap,   \* out-refs: the tx hashes whose outputs the collector holds
    orIdx,        \* out-refs: the per-reference loop's position in outRefs
    found,        \* out-refs: Kupmios' foundUtxosMap, Maestro's and Blockfrost's results
    processed,    \* out-refs: Kupmios' processedOutRefs
    orLog,        \* out-refs: every backend fetch made, with how it ended
    orRet,        \* out-refs: the (utxos, error) pair returned
    dgProvider,   \* delegation: the adapter whose GetDelegation is running
    dgPc,         \* delegation: "idle" | "request" | "block" | "returned"
    dgBackend,    \* delegation: the address asked for and the backend's answers
    dgLog,        \* delegation: the backend requests answered, in order
    dgRet,        \* delegation: the (Delegation, error) pair returned
    sbProvider,   \* submit: the adapter whose SubmitTx is running
    sbPc,         \* submit: "idle" | "custom" | "default" | "returned"
    sbBackend,    \* submit: how every endpoint answers
    sbIdx,        \* submit: the custom endpoint Blockfrost tries next
    sbLog,        \* submit: the endpoints contacted, in order, with their answers
    sbRet,        \* submit: the (hash, error) pair returned
    evProvider,   \* evaluate: the adapter whose EvaluateTx is running
    evPc,         \* evaluate: "idle" | "request" | "returned"
    evBackend,    \* evaluate: the backend's evaluation response
    evRet,        \* evaluate: the (redeemers, error) pair returned
    obAdapter,    \* output: the adapter function building an output
    obPc,         \* output: "idle" | "adapting" | "returned"
    obIn,         \* output: the backend's description of the output
    obLog,        \* output: the lookups the adapter made, in order, with their errors
    obRet,        \* output: the (output, error) pair built
    unPc,         \* unit: "idle" | "parsing" | "returned"
    unIn,         \* unit: the unit string parseUnit is called on, and its parts
    unRet         \* unit: the (policyID, assetNameHex, err) triple returned

awVars == <<awProvider, awPc, awInterval, tickerC, awRet, awLog, awCancelPc>>
lsVars == <<lsProvider, lsOp, lsPc, lsBackend, page, cursor, lsAcc, lsReq, lsResp,
            lsAux, lsRet>>
orVars == <<orProvider, orPc, outRefs, orBackend, task, resultChan, received,
            txUtxosMap, orIdx, found, processed, orLog, orRet>>
dgVars == <<dgProvider, dgPc, dgBackend, dgLog, dgRet>>
sbVars == <<sbProvider, sbPc, sbBackend, sbIdx, sbLog, sbRet>>
evVars == <<evProvider, evPc, evBackend, evRet>>
obVars == <<obAdapter, obPc, obIn, obLog, obRet>>
unVars == <<unPc, unIn, unRet>>
callVars == <<dgVars, sbVars, evVars, obVars, unVars>>
vars == <<ctxDone, awVars, lsVars, orVars, callVars>>

----------------------------------------------------------------------------
(* Bounds *)

\* The most existence checks one AwaitTx call issues in the model.
MaxChecks == 3

\* The most full pages a page-number backend serves before its short page.
MaxFullPages == 2

\* The longest short page of a page-number backend, and the longest answer of a
\* single-request backend.
MaxItems == 3

\* The most pages a cursor backend chains.
MaxCursorPages == 3

\* The longest page of a cursor backend.
MaxCursorItems == 2

\* The most addresses that hold a unit.
MaxHolders == 3

\* The most references one GetUtxosByOutRef call asks for.
MaxRefs == 3

\* The most custom submission endpoints Blockfrost is configured with.
MaxEndpoints == 2

\* The most redeemers one evaluation response reports.
MaxRedeemers == 2

\* The length of a policy id in hex characters, and the most bytes of an asset
\* name.
PolicyLen == 56
MaxNameBytes == 32

----------------------------------------------------------------------------
(* Errors, as the kinds a caller can tell apart.                           *)
(*   "nil"      no error                                                   *)
(*   "ctx"      ctx.Err(), or an error wrapping it                         *)
(*   "notfound" an error wrapping connector.ErrNotFound                    *)
(*   "invalid"  an error wrapping connector.ErrInvalidInput                *)
(*   "multiple" an ambiguity error                                         *)
(*   "other"    any other error                                            *)

Providers == {"blockfrost", "maestro", "kupmios", "utxorpc"}
AwaitProviders == {"blockfrost", "maestro", "kupmios", "utxorpc"}
\* The adapters whose AwaitTx is a loop around a ticker; UTxORPC's reads a stream.
TickerProviders == AwaitProviders \ {"utxorpc"}

\* Blockfrost's doRequest builds its request with http.NewRequestWithContext and
\* kugo's Matches takes ctx; the Maestro SDK client calls take no context.
CtxAware(p) == p \in {"blockfrost", "kupmios", "utxorpc"}

NoRet == [ok |-> FALSE, err |-> "unset"]
Ret(ok, err) == [ok |-> ok, err |-> err]

----------------------------------------------------------------------------
(* AwaitTx: the confirmation poller *)

\* What a backend can answer to one existence check.
\*   "notfound"  an error the adapter recognises as "not found yet" (HTTP 404)
\*   "error"     any other error
\*   "errfield"  Blockfrost only: a 2xx body whose "error" field is set
\*   "empty"     Kupmios only: no match
\*   "pending"   the transaction is known but carries no block / slot yet
\*   "confirmed" the transaction is in a block
\* UTxORPC's check is stream.Receive() on the WaitForTx stream:
\*   "error"     Receive is false, the stream failed
\*   "closed"    Receive is false, the stream ended
\*   "pending"   Receive is true, a message of a stage before confirmation
\*   "confirmed" Receive is true, a message of the confirmed stage
BackendAnswers(p) ==
    CASE p = "blockfrost" -> {"notfound", "error", "errfield", "pending", "confirmed"}
      [] p = "maestro"    -> {"notfound", "error", "pending", "confirmed"}
      [] p = "kupmios"    -> {"notfound", "error", "empty", "pending", "confirmed"}
      [] p = "utxorpc"    -> {"error", "closed", "pending", "confirmed"}
      [] OTHER            -> {}

\* The checks that are given ctx: Blockfrost's GetTx and kugo's Matches.
\* Maestro's TransactionCbor and the stream's Receive take no context.
AwaitCtxAware(p) == p \in {"blockfrost", "kupmios"}

\* The answer a check gets: a check given ctx fails with the context's error
\* once the context is done, whatever the backend would have said.
CheckAnswers(p, done) ==
    IF done /\ AwaitCtxAware(p) THEN {"ctxerr"} ELSE BackendAnswers(p)

\* checkInterval <= 0 selects the adapter's default.
DefaultInterval(p) == IF p = "kupmios" THEN 5 ELSE 3
EffectiveInterval(p, checkInterval) ==
    IF checkInterval <= 0 THEN DefaultInterval(p) ELSE checkInterval

\* The mutant of MaestroAwaitStep: a found transaction is treated as not yet found.
MaestroAwaitStepKeepsPolling(resp) ==
    CASE resp = "error" -> [pc |-> "returned", ret |-> Ret(FALSE, "other")]
      [] OTHER          -> [pc |-> "select", ret |-> NoRet]

\* The body of the ticker.C case, from the answer of the check to what follows.
BlockfrostAwaitStep(resp) ==
    CASE resp = "notfound"  -> [pc |-> "select", ret |-> NoRet]
      [] resp = "ctxerr"    -> [pc |-> "returned", ret |-> Ret(FALSE, "ctx")]
      [] resp = "error"     -> [pc |-> "returned", ret |-> Ret(FALSE, "other")]
      [] resp = "errfield"  -> [pc |-> "select", ret |-> NoRet]
      [] resp = "confirmed" -> [pc |-> "settle", ret |-> NoRet]
      [] OTHER              -> [pc |-> "select", ret |-> NoRet]

MaestroAwaitStep(resp) ==
    CASE resp = "notfound" -> [pc |-> "select", ret |-> NoRet]
      [] resp = "error"    -> [pc |-> "returned", ret |-> Ret(FALSE, "other")]
      [] OTHER             -> [pc |-> "returned", ret |-> Ret(TRUE, "nil")]

KupmiosAwaitStep(resp) ==
    CASE resp \in {"notfound", "error", "ctxerr"} -> [pc |-> "select", ret |-> NoRet]
      [] resp = "confirmed" -> [pc |-> "returned", ret |-> Ret(TRUE, "nil")]
      [] OTHER              -> [pc |-> "select", ret |-> NoRet]

\* UTxORPC, the default case of the select: any received message ends the call
\* with (true, nil); otherwise the loop sleeps 100 ms and selects again.
UtxorpcAwaitStep(resp) ==
    CASE resp \in {"pending", "confirmed"} -> [pc |-> "returned", ret |-> Ret(TRUE, "nil")]
      [] OTHER -> [pc |-> "select", ret |-> NoRet]

AwaitStep(p, resp) ==
    CASE p = "blockfrost" -> BlockfrostAwaitStep(resp)
      [] p = "maestro"    -> MaestroAwaitStep(resp)
      [] p = "utxorpc"    -> UtxorpcAwaitStep(resp)
      [] OTHER            -> KupmiosAwaitStep(resp)

\* The answers an adapter takes for the transaction being found/confirmed.
Positive(p, resp) ==
    \/ p = "blockfrost" /\ resp = "confirmed"
    \/ p = "maestro" /\ resp \in {"pending", "confirmed"}
    \/ p = "kupmios" /\ resp = "confirmed"
    \/ p = "utxorpc" /\ resp \in {"pending", "confirmed"}

\* No single-call operation (GetDelegation, SubmitTx, EvaluateTx, an output
\* adapter, parseUnit) is in progress.
CallsIdle ==
    /\ dgPc = "idle" /\ sbPc = "idle" /\ evPc = "idle" /\ obPc = "idle"
    /\ unPc = "idle"

AwIdle == awPc = "idle" /\ lsPc = "idle" /\ orPc = "idle" /\ CallsIdle
AwActive == awPc \in {"select", "request", "settle"}

\* A call of AwaitTx(ctx, txHash, checkInterval) of a ticker adapter, up to the
\* first select.
AwaitTx(p, txHashEmpty, checkInterval, done) ==
    /\ AwIdle
    /\ p \in TickerProviders
    /\ awProvider' = p
    /\ ctxDone' = done
    /\ awInterval' = EffectiveInterval(p, checkInterval)
    /\ IF p = "kupmios" /\ txHashEmpty
       THEN /\ awPc' = "returned"
            /\ awRet' = Ret(FALSE, "invalid")
       ELSE /\ awPc' = "select"
            /\ awRet' = NoRet
    /\ awCancelPc' = IF done THEN "start" ELSE "never"
    /\ UNCHANGED <<tickerC, awLog, lsVars, orVars, callVars>>

\* A call of UtxorpcProvider.AwaitTx(ctx, txHash, checkInterval), up to the
\* first select: WaitForTx opens the stream or fails; checkInterval is not read
\* and no ticker is made.
UtxorpcAwaitTx(waitFails, done) ==
    /\ AwIdle
    /\ awProvider' = "utxorpc"
    /\ ctxDone' = done
    /\ awInterval' = 0
    /\ IF waitFails
       THEN /\ awPc' = "returned"
            /\ awRet' = Ret(FALSE, "other")
       ELSE /\ awPc' = "select"
            /\ awRet' = NoRet
    /\ awCancelPc' = IF done THEN "start" ELSE "never"
    /\ UNCHANGED <<tickerC, awLog, lsVars, orVars, callVars>>

\* The caller cancels the context (or its deadline passes) during the call.
AwaitCancel ==
    /\ AwActive
    /\ ~ctxDone
    /\ ctxDone' = TRUE
    /\ awCancelPc' = awPc
    /\ UNCHANGED <<awProvider, awPc, awInterval, tickerC, awRet, awLog, lsVars, orVars, callVars>>

\* checkInterval elapses: the ticker puts a tick in its channel (dropped when full).
TickerFires ==
    /\ AwActive
    /\ awProvider \in TickerProviders
    /\ ~tickerC
    /\ Len(awLog) < MaxChecks
    /\ tickerC' = TRUE
    /\ UNCHANGED <<ctxDone, awProvider, awPc, awInterval, awRet, awLog, awCancelPc, lsVars, orVars, callVars>>

\* select: case <-ctx.Done()
SelectDone ==
    /\ awPc = "select"
    /\ ctxDone
    /\ awPc' = "returned"
    /\ awRet' = Ret(FALSE, "ctx")
    /\ UNCHANGED <<ctxDone, awProvider, awInterval, tickerC, awLog, awCancelPc, lsVars, orVars, callVars>>

\* select: case <-ticker.C, up to the backend request being sent. When both
\* channels are ready Go picks either case.
SelectTick ==
    /\ awPc = "select"
    /\ tickerC
    /\ tickerC' = FALSE
    /\ awPc' = "request"
    /\ awLog' = Append(awLog, [resp |-> "inflight", cancelledBefore |-> ctxDone])
    /\ UNCHANGED <<ctxDone, awProvider, awInterval, awRet, awCancelPc, lsVars, orVars, callVars>>

\* UTxORPC, select: default, taken only when ctx.Done() is not ready, up to the
\* call of stream.Receive().
SelectDefault ==
    /\ awPc = "select"
    /\ awProvider = "utxorpc"
    /\ ~ctxDone
    /\ Len(awLog) < MaxChecks
    /\ awPc' = "request"
    /\ awLog' = Append(awLog, [resp |-> "inflight", cancelledBefore |-> FALSE])
    /\ UNCHANGED <<ctxDone, awProvider, awInterval, tickerC, awRet, awCancelPc, lsVars, orVars, callVars>>

\* The existence check returns and the rest of the case runs.
CheckReturns ==
    /\ awPc = "request"
    /\ \E resp \in CheckAnswers(awProvider, ctxDone) :
          LET step == AwaitStep(awProvider, resp) IN
          /\ awLog' = [awLog EXCEPT ![Len(awLog)].resp = resp]
          /\ awPc' = step.pc
          /\ awRet' = step.ret
    /\ UNCHANGED <<ctxDone, awProvider, awInterval, tickerC, awCancelPc, lsVars, orVars, callVars>>

\* Blockfrost, after a response with a block hash:
\* select { case <-ctx.Done(): ...; case <-time.After(1 * time.Second): ... }
SettleDone ==
    /\ awPc = "settle"
    /\ ctxDone
    /\ awPc' = "returned"
    /\ awRet' = Ret(FALSE, "ctx")
    /\ UNCHANGED <<ctxDone, awProvider, awInterval, tickerC, awLog, awCancelPc, lsVars, orVars, callVars>>

SettleElapsed ==
    /\ awPc = "settle"
    /\ awPc' = "returned"
    /\ awRet' = Ret(TRUE, "nil")
    /\ UNCHANGED <<ctxDone, awProvider, awInterval, tickerC, awLog, awCancelPc, lsVars, orVars, callVars>>

InitAwait ==
    /\ awProvider = "none"
    /\ awPc = "idle"
    /\ awInterval = 0
    /\ tickerC = FALSE
    /\ awRet = NoRet
    /\ awLog = <<>>
    /\ awCancelPc = "never"

StartAwait ==
    \/ \E p \in TickerProviders, e \in BOOLEAN, i \in {0, 2}, d \in BOOLEAN :
          AwaitTx(p, e, i, d)
    \/ \E f \in BOOLEAN, d \in BOOLEAN : UtxorpcAwaitTx(f, d)

NextAwait ==
    \/ StartAwait
    \/ AwaitCancel
    \/ TickerFires
    \/ SelectDone
    \/ SelectTick
    \/ SelectDefault
    \/ CheckReturns
    \/ SettleDone
    \/ SettleElapsed

----------------------------------------------------------------------------
(* Listing operations: GetUtxosByAddress, GetUtxosWithUnit, GetUtxoByUnit *)

\* The page size Blockfrost serves; a shorter page ends the walk.
PageSize == 100

\* GetUtxoByUnit asks the backend for at most this many holders.
HolderCount == 2

ListOps == {"GetUtxosByAddress", "GetUtxosWithUnit", "GetUtxoByUnit"}

\* What sets one backend item apart from a plain one.
\*   "badTxHash"   its transaction hash is not hex
\*   "script"      it names a reference script, which the backend serves
\*   "scriptFail"  it names a reference script whose lookup fails
\*   "datum"       it names a datum Kupo holds
\*   "datumScript" it names a datum Kupo holds and a reference script it serves
\*   "badCbor"     its output CBOR does not decode
\*   "noAsset"     the requested unit is absent from its value
\*   "zeroQty"     it holds the requested unit with a quantity <= 0
Flaws(p) ==
    CASE p = "blockfrost" -> {"badTxHash", "script", "scriptFail"}
      [] p = "maestro"    -> {"badTxHash", "badCbor"}
      [] p = "kupmios"    -> {"badTxHash", "script", "scriptFail", "datum",
                              "datumScript", "noAsset", "zeroQty"}
      [] OTHER            -> {"badCbor"}

NoFlaw == [page |-> 0, pos |-> 0, kind |-> "none"]

\* The pages a page-number backend serves: full pages, a short one, and possibly
\* a page after the short one (which a walk must not fetch).
BlockfrostPageSeqs ==
    { [i \in 1..(nFull + 1 + after) |->
          IF i <= nFull THEN PageSize ELSE IF i = nFull + 1 THEN tail ELSE PageSize] :
      nFull \in 0..MaxFullPages, tail \in 0..MaxItems, after \in 0..1 }

SeqsUpTo(S, n) == UNION { [1..k -> S] : k \in 1..n }

PageSeqs(p) ==
    CASE p = "blockfrost" -> BlockfrostPageSeqs
      [] p = "maestro"    -> SeqsUpTo(0..MaxCursorItems, MaxCursorPages)
      [] OTHER            -> { <<n>> : n \in 0..MaxItems }

\* One item of a backend page: its place is its identity.
Item(b, pg, i) ==
    [page |-> pg, pos |-> i,
     flaw |-> IF b.flaw.page = pg /\ b.flaw.pos = i THEN b.flaw.kind ELSE "none"]

Items(b, pg) ==
    IF pg \in 1..Len(b.pages)
    THEN [i \in 1..b.pages[pg] |-> Item(b, pg, i)]
    ELSE <<>>

\* An opaque continuation token, and the backend's reading of it.
NoCursor == <<>>
Token(pg) == <<"cursor", pg>>
PageOfCursor(c) == IF c = NoCursor THEN 1 ELSE c[2]
NextCursor(b, pg) == IF pg < Len(b.pages) THEN Token(pg + 1) ELSE NoCursor

\* The backend's answer to the n-th request of a call, asking for page pg.
BackendPage(b, n, pg) ==
    IF b.fail.at = n
    THEN [err |-> b.fail.kind, items |-> <<>>, next |-> NoCursor]
    ELSE [err |-> "nil", items |-> Items(b, pg), next |-> NextCursor(b, pg)]

\* The canonical UTxO built from an item: its input, and whether the transaction
\* id is the whole decoded hash.
Utxo(item) ==
    [txIn |-> <<item.page, item.pos>>, hashOk |-> item.flaw # "badTxHash"]

MapSeq(s, F(_)) == [i \in 1..Len(s) |-> F(s[i])]

\* The lookups an adapter makes for one item that has come as far as its datum
\* and script handling, in order: each is a backend request the adapter waits
\* for.
ItemAsks(item) ==
    CASE item.flaw \in {"script", "scriptFail"} -> <<"script">>
      [] item.flaw = "datum"                     -> <<"datum">>
      [] item.flaw = "datumScript"               -> <<"datum", "script">>
      [] OTHER                                   -> <<>>

\* One entry of lsAux: the lookup made for an item, and the error it ended with.
Aux(item, part) ==
    [page |-> item.page, pos |-> item.pos, part |-> part,
     err |-> IF item.flaw = "scriptFail" THEN "other" ELSE "nil"]

\* The lookups made for a list of items, item by item.
RECURSIVE AuxOfAsking(_)
AuxOfAsking(items) ==
    IF items = <<>> THEN <<>>
    ELSE [i \in 1..Len(ItemAsks(Head(items))) |->
             Aux(Head(items), ItemAsks(Head(items))[i])]
         \o AuxOfAsking(Tail(items))
AuxOf(items) ==
    LET asking(it) == ItemAsks(it) # <<>> IN AuxOfAsking(SelectSeq(items, asking))

\* adaptBlockfrostAddressUTxOs: an item whose tx hash does not decode, or whose
\* reference script cannot be fetched, is skipped (continue).
BlockfrostKeeps(item) == item.flaw \notin {"badTxHash", "scriptFail"}
adaptBlockfrostAddressUTxOs(bfUtxos) ==
    MapSeq(SelectSeq(bfUtxos, BlockfrostKeeps), Utxo)

\* The GetScriptCborByScriptHash requests adaptBlockfrostAddressUTxOs makes: one
\* for every item with a reference script whose tx hash decoded.
BlockfrostAux(bfUtxos) ==
    LET reached(it) == it.flaw # "badTxHash" IN AuxOf(SelectSeq(bfUtxos, reached))

\* adaptMaestroUtxoToApolloUtxo, and the same steps inlined in the cursor loop:
\* the hash's decode error is ignored, the CBOR's is returned.
MaestroFails(items) == \E i \in 1..Len(items) : items[i].flaw = "badCbor"

ListRet(utxos, err) == [utxos |-> utxos, err |-> err]
NoListRet == ListRet(<<>>, "unset")

\* The tail of GetUtxoByUnit in Blockfrost and Maestro, from what
\* GetUtxosWithUnit returned.
UnitFromUtxos(r) ==
    IF r.err # "nil" THEN ListRet(<<>>, r.err)
    ELSE IF Len(r.utxos) = 0 THEN ListRet(<<>>, "notfound")
    ELSE IF Len(r.utxos) > 1 THEN ListRet(<<>>, "ambiguous")
    ELSE ListRet(<<r.utxos[1]>>, "nil")

\* What the operation returns once its page walk has returned r.
Finish(op, r) == IF op = "GetUtxoByUnit" THEN UnitFromUtxos(r) ELSE r

LsIdle == awPc = "idle" /\ lsPc = "idle" /\ orPc = "idle" /\ CallsIdle

\* BlockfrostProvider.GetUtxosByAddress / GetUtxosWithUnit: one turn of the loop.
\* The walk ends by returning (pc "returned") or by handing the items gathered
\* to adaptBlockfrostAddressUTxOs (pc "adapt").
BlockfrostPageStep(b, pg, all) ==
    LET resp == BackendPage(b, pg, pg) IN
    IF resp.err # "nil"
    THEN IF pg = 1 /\ resp.err = "notfound"
         THEN [pc |-> "returned", ret |-> ListRet(<<>>, "nil"), all |-> all]
         ELSE [pc |-> "returned", ret |-> ListRet(<<>>, resp.err), all |-> all]
    ELSE IF Len(resp.items) = 0
    THEN [pc |-> "adapt", ret |-> NoListRet, all |-> all]
    ELSE IF Len(resp.items) < PageSize
    THEN [pc |-> "adapt", ret |-> NoListRet, all |-> all \o resp.items]
    ELSE [pc |-> "paging", ret |-> NoListRet, all |-> all \o resp.items]

\* What the walk returns once adaptBlockfrostAddressUTxOs has gone through the
\* items gathered.
BlockfrostAdapted(op, all) ==
    Finish(op, ListRet(adaptBlockfrostAddressUTxOs(all), "nil"))

\* One page request and the turn of the loop it belongs to. The adapter runs in
\* the same step when it has no script to look up.
BlockfrostPage ==
    /\ lsPc = "paging"
    /\ lsProvider = "blockfrost"
    /\ LET step == BlockfrostPageStep(lsBackend, page, lsAcc) IN
       /\ lsReq' = Append(lsReq, page)
       /\ lsResp' = Append(lsResp, NoCursor)
       /\ lsAcc' = step.all
       /\ page' = IF step.pc = "paging" THEN page + 1 ELSE page
       /\ CASE step.pc = "returned" ->
                   lsPc' = "returned" /\ lsRet' = Finish(lsOp, step.ret)
            [] step.pc = "adapt" /\ BlockfrostAux(step.all) = <<>> ->
                   lsPc' = "returned" /\ lsRet' = BlockfrostAdapted(lsOp, step.all)
            [] step.pc = "adapt" /\ BlockfrostAux(step.all) # <<>> ->
                   lsPc' = "adapt" /\ lsRet' = lsRet
            [] OTHER ->
                   lsPc' = "paging" /\ lsRet' = lsRet
    /\ UNCHANGED <<lsProvider, lsOp, lsBackend, cursor, lsAux, ctxDone, awVars, orVars,
                   callVars>>

\* The mutant of MaestroFollowUp: every follow-up request carries the cursor of
\* the first response.
MaestroFollowUpFirst(lastNext) == lsResp[1]

\* The cursor a follow-up request carries: the NextCursor of the last response.
MaestroFollowUp(lastNext) == lastNext

\* MaestroProvider.GetUtxosByAddress / GetUtxosWithUnit: the first request, or one
\* turn of the NextCursor loop. A request error returns the utxos gathered so far
\* together with the error.
MaestroPageStep(b, n, c, utxos) ==
    LET resp == BackendPage(b, n, PageOfCursor(c)) IN
    IF resp.err # "nil"
    THEN [done |-> TRUE, ret |-> ListRet(utxos, "other"), all |-> utxos,
          next |-> NoCursor]
    ELSE IF MaestroFails(resp.items)
    THEN [done |-> TRUE, ret |-> ListRet(<<>>, "other"), all |-> utxos,
          next |-> resp.next]
    ELSE LET got == utxos \o MapSeq(resp.items, Utxo) IN
         [done |-> resp.next = NoCursor,
          ret |-> IF resp.next = NoCursor THEN ListRet(got, "nil") ELSE NoListRet,
          all |-> got, next |-> resp.next]

MaestroPage ==
    /\ lsPc = "paging"
    /\ lsProvider = "maestro"
    /\ LET c == IF lsReq = <<>> THEN NoCursor ELSE MaestroFollowUp(cursor)
           step == MaestroPageStep(lsBackend, Len(lsReq) + 1, c, lsAcc) IN
       /\ lsReq' = Append(lsReq, c)
       /\ lsResp' = Append(lsResp, step.next)
       /\ lsAcc' = step.all
       /\ cursor' = step.next
       /\ IF step.done
          THEN /\ lsPc' = "returned"
               /\ lsRet' = Finish(lsOp, step.ret)
          ELSE /\ lsPc' = "paging"
               /\ lsRet' = lsRet
    /\ UNCHANGED <<lsProvider, lsOp, lsBackend, page, lsAux, ctxDone, awVars, orVars,
                   callVars>>

\* Kupmios: the client-side unit filter of GetUtxosWithUnit (policy and asset
\* present in match.Value with a positive amount). The base currency is filed
\* under "ada" in match.Value, so a "lovelace" unit finds no policy.
KupmiosHolds(item, unitKind) ==
    unitKind = "asset" /\ item.flaw \notin {"noAsset", "zeroQty"}

\* Kupmios: the test of GetUtxoByUnit on its single match: policy and asset
\* present in match.Value; the amount is read and not looked at.
KupmiosPresent(item, unitKind) == unitKind = "asset" /\ item.flaw # "noAsset"

\* adaptKupoMatchToApolloUTxO fails on a tx hash that is not hex and on an
\* address that does not decode; a datum or script that cannot be fetched is
\* left out of the output.
KupmiosAdapts(item, addrDecodes) == item.flaw # "badTxHash" /\ addrDecodes

\* The address the adapter is given decodes: GetUtxosByAddress hands it the
\* caller's address, the other operations the address of the match.
KupmiosAddrDecodes(op, addr) == op = "GetUtxosByAddress" => addr = "ok"

\* KupmiosProvider.GetUtxosByAddress / GetUtxosWithUnit after Matches returned:
\* a match that fails to adapt is printed and skipped.
KupmiosList(op, unitKind, addr, resp) ==
    IF resp.err # "nil" THEN ListRet(<<>>, "other")
    ELSE LET wanted(it) ==
                 /\ op = "GetUtxosWithUnit" => KupmiosHolds(it, unitKind)
                 /\ KupmiosAdapts(it, KupmiosAddrDecodes(op, addr))
         IN ListRet(MapSeq(SelectSeq(resp.items, wanted), Utxo), "nil")

\* KupmiosProvider.GetUtxoByUnit after Matches returned.
KupmiosUnit(unitKind, resp) ==
    IF resp.err # "nil" THEN ListRet(<<>>, "other")
    ELSE IF Len(resp.items) = 0 THEN ListRet(<<>>, "notfound")
    ELSE IF Len(resp.items) > 1 THEN ListRet(<<>>, "ambiguous")
    ELSE IF ~KupmiosPresent(resp.items[1], unitKind) THEN ListRet(<<>>, "other")
    ELSE IF ~KupmiosAdapts(resp.items[1], TRUE) THEN ListRet(<<>>, "other")
    ELSE ListRet(<<Utxo(resp.items[1])>>, "nil")

\* The kugoClient.Datum and kugoClient.Script requests adaptKupoMatchToApolloUTxO
\* makes in an operation after Matches returned: for every match the operation
\* hands to the adapter whose tx hash and address decode.
KupmiosAux(op, unitKind, addr, resp) ==
    IF resp.err # "nil" THEN <<>>
    ELSE IF op = "GetUtxoByUnit"
    THEN IF /\ Len(resp.items) = 1
            /\ KupmiosPresent(resp.items[1], unitKind)
            /\ KupmiosAdapts(resp.items[1], TRUE)
         THEN AuxOf(resp.items) ELSE <<>>
    ELSE LET wanted(it) ==
                 /\ op = "GetUtxosWithUnit" => KupmiosHolds(it, unitKind)
                 /\ KupmiosAdapts(it, KupmiosAddrDecodes(op, addr))
         IN AuxOf(SelectSeq(resp.items, wanted))

\* The items before the first one whose CBOR does not decode.
RECURSIVE DecodedPrefix(_)
DecodedPrefix(items) ==
    IF items = <<>> \/ Head(items).flaw = "badCbor" THEN <<>>
    ELSE <<Utxo(Head(items))>> \o DecodedPrefix(Tail(items))

\* UtxorpcProvider.GetUtxosByAddress / GetUtxosWithUnit after the query returned:
\* an output that does not unmarshal returns the utxos built so far with the error.
UtxorpcList(resp) ==
    IF resp.err # "nil" THEN ListRet(<<>>, "other")
    ELSE IF \E i \in 1..Len(resp.items) : resp.items[i].flaw = "badCbor"
    THEN ListRet(DecodedPrefix(resp.items), "other")
    ELSE ListRet(MapSeq(resp.items, Utxo), "nil")

\* UtxorpcProvider.GetUtxoByUnit after the query returned.
UtxorpcUnit(resp) ==
    IF resp.err # "nil" THEN ListRet(<<>>, "other")
    ELSE IF Len(resp.items) = 0 THEN ListRet(<<>>, "notfound")
    ELSE IF Len(resp.items) > 1 THEN ListRet(<<>>, "ambiguous")
    ELSE IF resp.items[1].flaw = "badCbor" THEN ListRet(<<>>, "other")
    ELSE ListRet(<<Utxo(resp.items[1])>>, "nil")

\* A query by unit alone (Kupmios, UTxORPC) matches the UTxOs of every holder:
\* those of the first holder, and one more for each further holder.
UnitMatches(b) ==
    Items(b, 1) \o [k \in 1..(b.holders.n - 1) |->
                       [page |-> k + 1, pos |-> 1, flaw |-> "none"]]

SingleAnswer(b, op) ==
    IF b.fail.at = 1 THEN [err |-> b.fail.kind, items |-> <<>>, next |-> NoCursor]
    ELSE IF op = "GetUtxoByUnit"
    THEN [err |-> "nil", items |-> UnitMatches(b), next |-> NoCursor]
    ELSE BackendPage(b, 1, 1)

\* What a Kupmios operation returns from the answer to Matches, once the adapter
\* has gone through the matches.
KupmiosAdapted(op, unitKind, addr, resp) ==
    IF op = "GetUtxoByUnit" THEN KupmiosUnit(unitKind, resp)
    ELSE KupmiosList(op, unitKind, addr, resp)

\* Kupmios and UTxORPC send one listing request (Matches, SearchUtxos). UTxORPC
\* answers the operation from it; so does Kupmios when its adapter has no datum
\* or script to look up.
SingleRequest ==
    /\ lsPc = "paging"
    /\ lsProvider \in {"kupmios", "utxorpc"}
    /\ LET resp == SingleAnswer(lsBackend, lsOp)
           asks == IF lsProvider = "kupmios"
                   THEN KupmiosAux(lsOp, lsBackend.unitKind, lsBackend.addr, resp)
                   ELSE <<>> IN
       /\ lsReq' = Append(lsReq, 1)
       /\ lsResp' = Append(lsResp, NoCursor)
       /\ lsAcc' = resp.items
       /\ IF asks # <<>>
          THEN lsPc' = "adapt" /\ lsRet' = lsRet
          ELSE /\ lsPc' = "returned"
               /\ lsRet' = CASE lsProvider = "kupmios" ->
                                  KupmiosAdapted(lsOp, lsBackend.unitKind,
                                                 lsBackend.addr, resp)
                             [] lsProvider = "utxorpc" /\ lsOp = "GetUtxoByUnit" ->
                                  UtxorpcUnit(resp)
                             [] OTHER -> UtxorpcList(resp)
    /\ UNCHANGED <<lsProvider, lsOp, lsBackend, page, cursor, lsAux, ctxDone, awVars,
                   orVars, callVars>>

\* The answer to Matches the adapter is working through.
Matched == [err |-> "nil", items |-> lsAcc, next |-> NoCursor]

\* The lookups the running adapter makes in all.
ListAsks ==
    IF lsProvider = "blockfrost" THEN BlockfrostAux(lsAcc)
    ELSE KupmiosAux(lsOp, lsBackend.unitKind, lsBackend.addr, Matched)

\* The adapter's next script or datum lookup is answered; after its last the
\* operation returns.
AdaptLookup ==
    /\ lsPc = "adapt"
    /\ LET aux == Append(lsAux, ListAsks[Len(lsAux) + 1]) IN
       /\ lsAux' = aux
       /\ IF Len(aux) < Len(ListAsks)
          THEN lsPc' = "adapt" /\ lsRet' = lsRet
          ELSE /\ lsPc' = "returned"
               /\ lsRet' = IF lsProvider = "blockfrost"
                           THEN BlockfrostAdapted(lsOp, lsAcc)
                           ELSE KupmiosAdapted(lsOp, lsBackend.unitKind,
                                               lsBackend.addr, Matched)
    /\ UNCHANGED <<lsProvider, lsOp, lsBackend, page, cursor, lsAcc, lsReq, lsResp,
                   ctxDone, awVars, orVars, callVars>>

\* GetUtxoByUnit in Blockfrost and Maestro: the answer to the holders request
\* (at most two addresses are asked for). A Maestro SDK error is returned as it is.
HoldersStep(p, h) ==
    IF h.err # "nil"
    THEN [done |-> TRUE,
          ret |-> ListRet(<<>>, IF p = "blockfrost" THEN h.err ELSE "other")]
    ELSE LET got == IF h.n < HolderCount THEN h.n ELSE HolderCount IN
         IF got = 0 THEN [done |-> TRUE, ret |-> ListRet(<<>>, "notfound")]
         ELSE IF got > 1 THEN [done |-> TRUE, ret |-> ListRet(<<>>, "ambiguous")]
         ELSE [done |-> FALSE, ret |-> NoListRet]

Holders ==
    /\ lsPc = "holders"
    /\ LET step == HoldersStep(lsProvider, lsBackend.holders) IN
       /\ lsPc' = IF step.done THEN "returned" ELSE "paging"
       /\ lsRet' = step.ret
    /\ UNCHANGED <<lsProvider, lsOp, lsBackend, page, cursor, lsAcc, lsReq, lsResp,
                   lsAux, ctxDone, awVars, orVars, callVars>>

\* The address argument: "ok" decodes, "empty" is the empty string, "bad" is any
\* other string that does not decode.
AddrArgs == {"ok", "empty", "bad"}

\* The checks an operation makes on its arguments before any request. Kupmios
\* refuses an empty address in GetUtxosWithUnit; UTxORPC decodes the address.
Validate(p, op, addr, unitKind) ==
    CASE p = "kupmios" /\ op = "GetUtxosWithUnit" /\ addr = "empty" -> "invalidInput"
      [] /\ p = "kupmios" /\ unitKind = "malformed"
         /\ (op = "GetUtxoByUnit" \/ (op = "GetUtxosWithUnit" /\ addr # "empty")) ->
            "invalidInput"
      [] p = "utxorpc" /\ op # "GetUtxoByUnit" /\ addr # "ok" -> "invalidAddress"
      [] /\ p = "utxorpc" /\ op = "GetUtxosWithUnit" /\ addr = "ok"
         /\ unitKind = "lovelace" ->
            "invalidUnit"
      [] p = "utxorpc" /\ op = "GetUtxoByUnit" /\ unitKind = "lovelace" ->
            "invalidInput"
      [] /\ p = "utxorpc" /\ unitKind = "malformed"
         /\ (op = "GetUtxoByUnit" \/ (op = "GetUtxosWithUnit" /\ addr = "ok")) ->
            "other"
      [] OTHER -> "nil"

\* A call of a listing operation, up to its first backend request.
GetUtxos(p, op, b) ==
    /\ LsIdle
    /\ lsProvider' = p
    /\ lsOp' = op
    /\ lsBackend' = b
    /\ page' = 1
    /\ LET v == Validate(p, op, b.addr, b.unitKind) IN
       IF v # "nil"
       THEN lsPc' = "returned" /\ lsRet' = ListRet(<<>>, v)
       ELSE /\ lsRet' = NoListRet
            /\ lsPc' = IF op = "GetUtxoByUnit" /\ p \in {"blockfrost", "maestro"}
                       THEN "holders" ELSE "paging"
    /\ UNCHANGED <<cursor, lsAcc, lsReq, lsResp, lsAux, ctxDone, awVars, orVars,
                   callVars>>

\* The backends and arguments the model draws from.
FlawSpots == {<<1, 1>>, <<1, 2>>, <<2, 1>>}
FlawChoices(p) ==
    {NoFlaw} \cup { [page |-> s[1], pos |-> s[2], kind |-> k] :
                    s \in FlawSpots, k \in Flaws(p) }
FailChoices(p) ==
    {[at |-> 0, kind |-> "nil"]} \cup
    { [at |-> n, kind |-> k] :
      n \in (IF p \in {"blockfrost", "maestro"} THEN 1..2 ELSE {1}),
      k \in {"notfound", "other"} }
HolderChoices(p, op) ==
    IF op # "GetUtxoByUnit" THEN {[err |-> "nil", n |-> 1]}
    ELSE IF p \in {"blockfrost", "maestro"}
    THEN { [err |-> e, n |-> 0] : e \in {"notfound", "other"} } \cup
         { [err |-> "nil", n |-> n] : n \in 0..MaxHolders }
    ELSE { [err |-> "nil", n |-> n] : n \in 0..MaxHolders }
AddrChoices(p, op) ==
    IF p \in {"kupmios", "utxorpc"} /\ op # "GetUtxoByUnit" THEN AddrArgs ELSE {"ok"}
UnitChoices(p, op) ==
    IF p \in {"kupmios", "utxorpc"} /\ op # "GetUtxosByAddress"
    THEN {"asset", "lovelace", "malformed"} ELSE {"asset"}

\* A unit query that matches nothing has no holder, and one that matches has one.
Consistent(p, op, b) ==
    (p \in {"kupmios", "utxorpc"} /\ op = "GetUtxoByUnit")
        => (b.holders.n = 0 <=> b.pages[1] = 0)

Backends(p, op) ==
    { b \in [pages : PageSeqs(p), flaw : FlawChoices(p), fail : FailChoices(p),
             holders : HolderChoices(p, op), addr : AddrChoices(p, op),
             unitKind : UnitChoices(p, op)] : Consistent(p, op, b) }

InitList ==
    /\ lsProvider = "none"
    /\ lsOp = "none"
    /\ lsPc = "idle"
    /\ lsBackend = [pages |-> <<>>, flaw |-> NoFlaw, fail |-> [at |-> 0, kind |-> "nil"],
                    holders |-> [err |-> "nil", n |-> 0], addr |-> "ok",
                    unitKind |-> "asset"]
    /\ page = 1
    /\ cursor = NoCursor
    /\ lsAcc = <<>>
    /\ lsReq = <<>>
    /\ lsResp = <<>>
    /\ lsAux = <<>>
    /\ lsRet = NoListRet

StartList ==
    /\ LsIdle
    /\ \E p \in Providers, op \in ListOps : \E b \in Backends(p, op) :
          GetUtxos(p, op, b)

NextList ==
    \/ StartList
    \/ Holders
    \/ BlockfrostPage
    \/ MaestroPage
    \/ SingleRequest
    \/ AdaptLookup

----------------------------------------------------------------------------
(* GetUtxosByOutRef *)

\* Transaction hashes: two that are hex, and one that is not.
Hashes == {"a", "b"}
NotHex == "zz"
IsHex(h) == h # NotHex
Indexes == 0..1

OutRef(h, i) == [txHash |-> h, index |-> i]

\* What the backend answers to the request for a reference script:
\*   "nil"      the script's CBOR in hex
\*   "notfound" a 404, which doRequest wraps around connector.ErrNotFound
\*   "other"    another error status, a transport error, or an empty cbor field
\*   "badhex"   a cbor field that is not hex
ScriptAnswers == {"nil", "notfound", "other", "badhex"}

\* What Kupo answers to the request for the datum of an output's datum hash:
\*   "none"   the output has no datum hash of type inline or datum
\*   "nil"    the datum's CBOR in hex
\*   "other"  an error, or nothing
DatumAnswers == {"none", "nil", "other"}

\* What the backend knows of one transaction: whether it answers, which outputs
\* the transaction has, which of them do not adapt (undecodable CBOR, address or
\* tx hash), which carry the hash of a reference script, what the backend
\* answers when asked for that script, and what for the datum of output 0.
\* A transaction drawn with a reference script or a datum to ask for has the
\* one output 0.
NoTx == [kind |-> "notfound", outs |-> {}, bad |-> {}, scripts |-> {},
         script |-> "nil", datum |-> "none"]
TxStates ==
    {NoTx, [kind |-> "error", outs |-> {}, bad |-> {}, scripts |-> {},
            script |-> "nil", datum |-> "none"]}
    \cup
    { t \in { [kind |-> "ok", outs |-> o, bad |-> bd, scripts |-> sc, script |-> s,
               datum |-> d] :
               o \in {{0}, {0, 1}}, bd \in {{}, {0}}, sc \in {{}, {0}},
               s \in ScriptAnswers, d \in DatumAnswers } :
      /\ t.scripts # {} => t.bad = {} /\ t.outs = {0}
      /\ t.scripts = {} => t.script = "nil"
      /\ t.datum # "none" => t.bad = {} /\ t.outs = {0} /\ t.script = "nil" }
\* The backends drawn: one of the two transactions may have a reference script
\* or a datum to ask for.
Plain(t) == t.scripts = {} /\ t.datum = "none"
OrBackends == { b \in [Hashes -> TxStates] : Plain(b["b"]) }

\* Blockfrost asks the backend for reference scripts by their hash, Kupmios for
\* reference scripts and datums; Maestro and UTxORPC get them in the output.
OrBackendsOf(p) ==
    CASE p = "kupmios"    -> OrBackends
      [] p = "blockfrost" -> { b \in OrBackends : \A h \in Hashes : b[h].datum = "none" }
      [] OTHER            -> { b \in OrBackends : \A h \in Hashes : Plain(b[h]) }
TxOf(b, h) == IF h \in DOMAIN b THEN b[h] ELSE NoTx

Resolves(b, r) == TxOf(b, r.txHash).kind = "ok" /\ r.index \in TxOf(b, r.txHash).outs
Bad(b, r) == Resolves(b, r) /\ r.index \in TxOf(b, r.txHash).bad
HasScript(b, r) == Resolves(b, r) /\ r.index \in TxOf(b, r.txHash).scripts
HasDatum(b, r) == Resolves(b, r) /\ r.index = 0 /\ TxOf(b, r.txHash).datum # "none"
RefUtxo(r) == [txIn |-> <<r.txHash, r.index>>, hashOk |-> TRUE]

\* One entry of orLog: a request for an output, for all outputs of a transaction
\* (index -1), or for the reference script or the datum of an output.
FetchedPart(h, i, part, err) == [txHash |-> h, index |-> i, part |-> part, err |-> err]
Fetched(h, i, err) == FetchedPart(h, i, "output", err)

OrIdle == awPc = "idle" /\ lsPc = "idle" /\ orPc = "idle" /\ CallsIdle
OrActive == orPc \in {"collect", "assemble", "loop", "datum", "script", "request"}

\* How a request for transaction h ends. A client that takes the context fails
\* with its error once it is cancelled.
FetchErr(p, b, h, done) ==
    IF done /\ CtxAware(p) THEN "ctx"
    ELSE CASE TxOf(b, h).kind = "ok"       -> "nil"
           [] TxOf(b, h).kind = "notfound" -> "notfound"
           [] OTHER                        -> "other"

uniqueTxHashes(refs) == { refs[i].txHash : i \in 1..Len(refs) }

\* A call of GetUtxosByOutRef, up to its first backend request. Blockfrost starts
\* one goroutine per distinct transaction hash.
GetUtxosByOutRef(p, refs, b) ==
    /\ OrIdle
    /\ orProvider' = p
    /\ outRefs' = refs
    /\ orBackend' = b
    /\ IF Len(refs) = 0 /\ p # "utxorpc"
       THEN /\ orPc' = "returned"
            /\ orRet' = ListRet(<<>>, "nil")
            /\ task' = <<>>
       ELSE IF p = "utxorpc" /\ \E i \in 1..Len(refs) : ~IsHex(refs[i].txHash)
       THEN /\ orPc' = "returned"
            /\ orRet' = ListRet(<<>>, "other")
            /\ task' = <<>>
       ELSE /\ orPc' = CASE p = "blockfrost" -> "collect"
                         [] p = "utxorpc"    -> "request"
                         [] OTHER            -> "loop"
            /\ orRet' = NoListRet
            /\ task' = IF p = "blockfrost"
                       THEN [h \in uniqueTxHashes(refs) |->
                                [pc |-> "fetch", err |-> "unset"]]
                       ELSE <<>>
    /\ UNCHANGED <<resultChan, received, txUtxosMap, orIdx, found, processed, orLog,
                   ctxDone, awVars, lsVars, callVars>>

\* The caller cancels the context while the call is running.
OrCancel ==
    /\ OrActive
    /\ ~ctxDone
    /\ ctxDone' = TRUE
    /\ UNCHANGED <<awVars, lsVars, orVars, callVars>>

Range(s) == { s[i] : i \in 1..Len(s) }

\* Blockfrost goroutine for hash h: doRequest returns.
Fetch(h) ==
    /\ h \in DOMAIN task
    /\ task[h].pc = "fetch"
    /\ LET err == FetchErr("blockfrost", orBackend, h, ctxDone) IN
       /\ task' = [task EXCEPT ![h] = [pc |-> "send", err |-> err]]
       /\ orLog' = Append(orLog, Fetched(h, -1, err))
    /\ UNCHANGED <<orProvider, orPc, outRefs, orBackend, resultChan, received,
                   txUtxosMap, orIdx, found, processed, orRet, ctxDone, awVars, lsVars, callVars>>

\* The mutant of ChanCap: a result channel with room for one result.
ChanCapOne(tasks) == 1

\* make(chan txResult, len(uniqueTxHashes)): the capacity of resultChan.
ChanCap(tasks) == Cardinality(DOMAIN tasks)

\* Blockfrost goroutine for hash h: the send on resultChan, which blocks while
\* the channel is full.
Send(h) ==
    /\ h \in DOMAIN task
    /\ task[h].pc = "send"
    /\ Len(resultChan) < ChanCap(task)
    /\ resultChan' = Append(resultChan, [txHash |-> h, err |-> task[h].err])
    /\ task' = [task EXCEPT ![h].pc = "done"]
    /\ UNCHANGED <<orProvider, orPc, outRefs, orBackend, received, txUtxosMap, orIdx,
                   found, processed, orLog, orRet, ctxDone, awVars, lsVars, callVars>>

\* The collector receives one result: not-found is passed over, any other error
\* returns at once, and after the last result the loop over the references
\* begins.
BlockfrostCollectStep(result, i, known, refs) ==
    IF result.err \notin {"nil", "notfound"}
    THEN [pc |-> "returned", ret |-> ListRet(<<>>, result.err), known |-> known]
    ELSE [pc |-> IF i + 1 = Cardinality(uniqueTxHashes(refs))
                 THEN "assemble" ELSE "collect",
          ret |-> NoListRet,
          known |-> IF result.err = "nil" THEN known \cup {result.txHash}
                    ELSE known]

Collect ==
    /\ orPc = "collect"
    /\ resultChan # <<>>
    /\ LET step == BlockfrostCollectStep(Head(resultChan), received, txUtxosMap,
                                         outRefs) IN
       /\ txUtxosMap' = step.known
       /\ orPc' = step.pc
       /\ orRet' = step.ret
    /\ resultChan' = Tail(resultChan)
    /\ received' = received + 1
    /\ UNCHANGED <<orProvider, outRefs, orBackend, task, orIdx, found, processed,
                   orLog, ctxDone, awVars, lsVars, callVars>>

\* How GetScriptCborByScriptHash for the output of r ends: doRequest is given
\* ctx and fails with its error once it is done; otherwise the backend's answer
\* decides, an empty cbor field being an error of its own.
ScriptFetchErr(b, r, done) ==
    IF done THEN "ctx"
    ELSE CASE TxOf(b, r.txHash).script = "notfound" -> "notfound"
           [] TxOf(b, r.txHash).script = "other"    -> "other"
           [] OTHER                                 -> "nil"

\* The script fetched for the output of r does not decode from hex.
ScriptUndecodable(b, r) == TxOf(b, r.txHash).script = "badhex"

\* The mutant of BlockfrostAssembleStep: a reference whose UTxO is already in the
\* results is passed over.
BlockfrostAssembleStepOnce(b, r, known, results, done) ==
    IF r.txHash \notin known \/ ~Resolves(b, r) \/ r \in Range(results)
    THEN [asked |-> FALSE, fetchErr |-> "nil", err |-> "nil", results |-> results]
    ELSE IF Bad(b, r)
    THEN [asked |-> FALSE, fetchErr |-> "nil", err |-> "other", results |-> results]
    ELSE IF ~HasScript(b, r)
    THEN [asked |-> FALSE, fetchErr |-> "nil", err |-> "nil",
          results |-> Append(results, r)]
    ELSE LET fe == ScriptFetchErr(b, r, done) IN
         IF fe # "nil"
         THEN [asked |-> TRUE, fetchErr |-> fe, err |-> fe, results |-> results]
         ELSE IF ScriptUndecodable(b, r)
         THEN [asked |-> TRUE, fetchErr |-> fe, err |-> "other", results |-> results]
         ELSE [asked |-> TRUE, fetchErr |-> fe, err |-> "nil",
               results |-> Append(results, r)]

\* One turn of the last loop of Blockfrost's GetUtxosByOutRef: the output of a
\* collected transaction at the reference's index is adapted, which fetches and
\* decodes its reference script if it has one; an output that does not adapt
\* fails the call with the error wrapped.
BlockfrostAssembleStep(b, r, known, results, done) ==
    IF r.txHash \notin known \/ ~Resolves(b, r)
    THEN [asked |-> FALSE, fetchErr |-> "nil", err |-> "nil", results |-> results]
    ELSE IF Bad(b, r)
    THEN [asked |-> FALSE, fetchErr |-> "nil", err |-> "other", results |-> results]
    ELSE IF ~HasScript(b, r)
    THEN [asked |-> FALSE, fetchErr |-> "nil", err |-> "nil",
          results |-> Append(results, r)]
    ELSE LET fe == ScriptFetchErr(b, r, done) IN
         IF fe # "nil"
         THEN [asked |-> TRUE, fetchErr |-> fe, err |-> fe, results |-> results]
         ELSE IF ScriptUndecodable(b, r)
         THEN [asked |-> TRUE, fetchErr |-> fe, err |-> "other", results |-> results]
         ELSE [asked |-> TRUE, fetchErr |-> fe, err |-> "nil",
               results |-> Append(results, r)]

Assemble ==
    /\ orPc = "assemble"
    /\ LET r == outRefs[orIdx]
           step == BlockfrostAssembleStep(orBackend, r, txUtxosMap, found, ctxDone) IN
       /\ orLog' = IF step.asked
                   THEN Append(orLog, FetchedPart(r.txHash, r.index, "script",
                                                  step.fetchErr))
                   ELSE orLog
       /\ found' = step.results
       /\ IF step.err # "nil"
          THEN /\ orPc' = "returned"
               /\ orRet' = ListRet(<<>>, step.err)
               /\ orIdx' = orIdx
          ELSE IF orIdx = Len(outRefs)
          THEN /\ orPc' = "returned"
               /\ orRet' = ListRet(MapSeq(step.results, RefUtxo), "nil")
               /\ orIdx' = orIdx
          ELSE /\ orPc' = "assemble"
               /\ orRet' = orRet
               /\ orIdx' = orIdx + 1
    /\ UNCHANGED <<orProvider, outRefs, orBackend, task, resultChan, received,
                   txUtxosMap, processed, ctxDone, awVars, lsVars, callVars>>

\* MaestroProvider.GetUtxosByOutRef: one turn of the loop. The SDK takes no
\* context; any error it returns, a 404 included, fails the call.
MaestroRefStep(b, r, results, last) ==
    LET err == IF TxOf(b, r.txHash).kind = "error" THEN "other"
               ELSE IF ~Resolves(b, r) THEN "notfound" ELSE "nil" IN
    IF err # "nil"
    THEN [done |-> TRUE, ret |-> ListRet(<<>>, "other"), results |-> results,
          err |-> err]
    ELSE IF Bad(b, r)
    THEN [done |-> TRUE, ret |-> ListRet(<<>>, "other"), results |-> results,
          err |-> err]
    ELSE LET got == Append(results, r) IN
         [done |-> last,
          ret |-> IF last THEN ListRet(MapSeq(got, RefUtxo), "nil") ELSE NoListRet,
          results |-> got, err |-> err]

MaestroRef ==
    /\ orPc = "loop"
    /\ orProvider = "maestro"
    /\ LET r == outRefs[orIdx]
           step == MaestroRefStep(orBackend, r, found, orIdx = Len(outRefs)) IN
       /\ orLog' = Append(orLog, Fetched(r.txHash, r.index, step.err))
       /\ found' = step.results
       /\ orPc' = IF step.done THEN "returned" ELSE "loop"
       /\ orRet' = step.ret
       /\ orIdx' = IF step.done THEN orIdx ELSE orIdx + 1
    /\ UNCHANGED <<orProvider, outRefs, orBackend, task, resultChan, received,
                   txUtxosMap, processed, ctxDone, awVars, lsVars, callVars>>

\* The orders in which ranging over a Go map of these keys can yield them.
MapOrders(keys) ==
    { q \in [1..Len(keys) -> Range(keys)] : Range(q) = Range(keys) }

\* How Kupmios' Matches call for one reference ends.
KupmiosFetchErr(b, r, done) ==
    IF done THEN "ctx" ELSE IF TxOf(b, r.txHash).kind = "error" THEN "other" ELSE "nil"

\* How kugoClient.Datum or kugoClient.Script for the output of r ends; both are
\* given ctx.
KupmiosPartErr(b, r, part, done) ==
    IF done THEN "ctx"
    ELSE IF part = "datum"
    THEN (IF TxOf(b, r.txHash).datum = "other" THEN "other" ELSE "nil")
    ELSE CASE TxOf(b, r.txHash).script = "notfound" -> "notfound"
           [] TxOf(b, r.txHash).script = "other"    -> "other"
           [] OTHER                                 -> "nil"

\* adaptKupoMatchToApolloUTxO once tx hash and address decoded: it asks for the
\* datum, then for the reference script, of an output that names one, and
\* returns the output whatever these requests give.
KupmiosAfter(b, r, stage) ==
    IF stage = "match" /\ HasDatum(b, r) THEN "datum"
    ELSE IF stage \in {"match", "datum"} /\ HasScript(b, r) THEN "script"
    ELSE "keep"

\* KupmiosProvider.GetUtxosByOutRef: one turn of the loop, up to the call of the
\* adapter. A failed request and a match that does not adapt are printed and
\* passed over.
KupmiosRefStep(b, r, done, have, seen) ==
    IF r \in seen
    THEN [asked |-> FALSE, err |-> "nil", next |-> "skip"]
    ELSE LET err == KupmiosFetchErr(b, r, done) IN
         IF err # "nil" \/ ~Resolves(b, r)
         THEN [asked |-> TRUE, err |-> err, next |-> "skip"]
         ELSE IF r \in Range(have)
         THEN [asked |-> TRUE, err |-> err, next |-> "seen"]
         ELSE IF Bad(b, r)
         THEN [asked |-> TRUE, err |-> err, next |-> "skip"]
         ELSE [asked |-> TRUE, err |-> err, next |-> KupmiosAfter(b, r, "match")]

\* The end of one turn of the loop with foundUtxosMap holding have: the next
\* reference, or after the last one the values of the map in the order the
\* range over it yields them.
KupmiosNextRef(have) ==
    IF orIdx = Len(outRefs)
    THEN /\ orPc' = "returned"
         /\ orIdx' = orIdx
         /\ \E q \in MapOrders(have) : orRet' = ListRet(MapSeq(q, RefUtxo), "nil")
    ELSE /\ orPc' = "loop"
         /\ orIdx' = orIdx + 1
         /\ orRet' = orRet

\* The adapter returned the output of outRefs[orIdx].
KupmiosKeep ==
    /\ found' = Append(found, outRefs[orIdx])
    /\ processed' = processed \cup {outRefs[orIdx]}
    /\ KupmiosNextRef(Append(found, outRefs[orIdx]))

KupmiosRef ==
    /\ orPc = "loop"
    /\ orProvider = "kupmios"
    /\ LET r == outRefs[orIdx]
           step == KupmiosRefStep(orBackend, r, ctxDone, found, processed) IN
       /\ orLog' = IF step.asked
                   THEN Append(orLog, Fetched(r.txHash, r.index, step.err))
                   ELSE orLog
       /\ CASE step.next = "skip" ->
                 /\ UNCHANGED <<found, processed>>
                 /\ KupmiosNextRef(found)
            [] step.next = "seen" ->
                 /\ found' = found
                 /\ processed' = processed \cup {r}
                 /\ KupmiosNextRef(found)
            [] step.next = "keep" -> KupmiosKeep
            [] OTHER ->
                 /\ orPc' = step.next
                 /\ UNCHANGED <<found, processed, orIdx, orRet>>
    /\ UNCHANGED <<orProvider, outRefs, orBackend, task, resultChan, received,
                   txUtxosMap, ctxDone, awVars, lsVars, callVars>>

\* The adapter's request for the datum or the reference script of the output of
\* outRefs[orIdx] returns.
KupmiosPart ==
    /\ orPc \in {"datum", "script"}
    /\ orProvider = "kupmios"
    /\ LET r == outRefs[orIdx]
           err == KupmiosPartErr(orBackend, r, orPc, ctxDone)
           next == KupmiosAfter(orBackend, r, orPc) IN
       /\ orLog' = Append(orLog, FetchedPart(r.txHash, r.index, orPc, err))
       /\ IF next = "keep"
          THEN KupmiosKeep
          ELSE /\ orPc' = next
               /\ UNCHANGED <<found, processed, orIdx, orRet>>
    /\ UNCHANGED <<orProvider, outRefs, orBackend, task, resultChan, received,
                   txUtxosMap, ctxDone, awVars, lsVars, callVars>>

\* The references up to the first one whose output does not unmarshal.
RECURSIVE UnmarshalledPrefix(_, _)
UnmarshalledPrefix(b, items) ==
    IF items = <<>> \/ Bad(b, Head(items)) THEN <<>>
    ELSE <<RefUtxo(Head(items))>> \o UnmarshalledPrefix(b, Tail(items))

\* UtxorpcProvider.GetUtxosByOutRef after the hashes decoded: one request for all
\* references; the backend answers with the outputs it has, in request order.
UtxorpcRefsStep(b, refs, done) ==
    LET Has(r) == Resolves(b, r)
        items == SelectSeq(refs, Has)
        err == IF done THEN "ctx"
               ELSE IF \E i \in 1..Len(refs) : TxOf(b, refs[i].txHash).kind = "error"
               THEN "other" ELSE "nil" IN
    IF err # "nil" THEN [err |-> err, ret |-> ListRet(<<>>, err)]
    ELSE IF \E i \in 1..Len(items) : Bad(b, items[i])
    THEN [err |-> err, ret |-> ListRet(UnmarshalledPrefix(b, items), "other")]
    ELSE [err |-> err, ret |-> ListRet(MapSeq(items, RefUtxo), "nil")]

UtxorpcRefs ==
    /\ orPc = "request"
    /\ orProvider = "utxorpc"
    /\ LET step == UtxorpcRefsStep(orBackend, outRefs, ctxDone) IN
       /\ orLog' = Append(orLog, Fetched("*", -1, step.err))
       /\ orRet' = step.ret
    /\ orPc' = "returned"
    /\ UNCHANGED <<orProvider, outRefs, orBackend, task, resultChan, received,
                   txUtxosMap, orIdx, found, processed, ctxDone, awVars, lsVars, callVars>>

\* The references the model draws from.
RefChoices(p) ==
    { OutRef(h, i) : h \in Hashes, i \in Indexes } \cup
    (IF p = "utxorpc" THEN {OutRef(NotHex, 0)} ELSE {})
RefSeqs(p) == UNION { [1..k -> RefChoices(p)] : k \in 0..MaxRefs }

InitOutRef ==
    /\ orProvider = "none"
    /\ orPc = "idle"
    /\ outRefs = <<>>
    /\ orBackend = [h \in Hashes |-> NoTx]
    /\ task = <<>>
    /\ resultChan = <<>>
    /\ received = 0
    /\ txUtxosMap = {}
    /\ orIdx = 1
    /\ found = <<>>
    /\ processed = {}
    /\ orLog = <<>>
    /\ orRet = NoListRet

\* Blockfrost's fan-out alone: calls whose references differ in their hashes.
FanOutRefs == UNION { [1..k -> { OutRef(h, 0) : h \in Hashes }] : k \in 0..MaxRefs }

StartFanOut ==
    /\ OrIdle
    /\ \E refs \in FanOutRefs, b \in OrBackendsOf("blockfrost") :
          GetUtxosByOutRef("blockfrost", refs, b)

NextFanOut ==
    \/ StartFanOut
    \/ OrCancel
    \/ \E h \in Hashes : Fetch(h)
    \/ \E h \in Hashes : Send(h)
    \/ Collect
    \/ Assemble

\* The Go scheduler runs every goroutine that can take a step, and a request
\* made by doRequest returns.
FairFanOut ==
    /\ \A h \in Hashes : WF_vars(Fetch(h)) /\ WF_vars(Send(h))
    /\ WF_vars(Collect)
    /\ WF_vars(Assemble)

StartOutRef ==
    /\ OrIdle
    /\ \E p \in Providers : \E refs \in RefSeqs(p), b \in OrBackendsOf(p) :
          GetUtxosByOutRef(p, refs, b)

NextOutRef ==
    \/ StartOutRef
    \/ OrCancel
    \/ \E h \in Hashes : Fetch(h)
    \/ \E h \in Hashes : Send(h)
    \/ Collect
    \/ Assemble
    \/ MaestroRef
    \/ KupmiosRef
    \/ KupmiosPart
    \/ UtxorpcRefs

----------------------------------------------------------------------------
(* GetDelegation *)

\* What is left alone by an action of one of the single-call operations.
coreVars == <<ctxDone, awVars, lsVars, orVars>>

AllIdle == awPc = "idle" /\ lsPc = "idle" /\ orPc = "idle" /\ CallsIdle

\* The addresses asked for, by the prefixes the adapters test:
\*   "stake1", "stake_test1"  reward addresses of mainnet and testnets
\*   "stake"                  begins with "stake" but with neither of the above
\*   "addr"                   a payment address
AddrKinds == {"stake1", "stake_test1", "stake", "addr"}

\* strings.HasPrefix(addr, "stake"), and Kupmios' two longer prefixes.
StakeAddrOk(p, addrKind) ==
    IF p = "kupmios" THEN addrKind \in {"stake1", "stake_test1"}
    ELSE addrKind \in {"stake1", "stake_test1", "stake"}

Delegation(active, rewards, poolId, epoch) ==
    [Active |-> active, Rewards |-> rewards, PoolId |-> poolId, Epoch |-> epoch]
NoDelegation == Delegation(FALSE, 0, "", 0)
DgRet(d, err) == [d |-> d, err |-> err]
NoDgRet == DgRet(NoDelegation, "unset")

\* strconv.ParseUint of withdrawable_amount; 0 when it is empty or not a number.
ParseRewards(s) == CASE s = "5" -> 5 [] s = "0" -> 0 [] OTHER -> 0

\* adaptBlockfrostAccountToDelegation
adaptBlockfrostAccountToDelegation(acc) ==
    Delegation(acc.pool # "" /\ acc.active, ParseRewards(acc.rewards), acc.pool, 0)

\* adaptMaestroDelegation
adaptMaestroDelegation(acc, epoch) ==
    Delegation(acc.active, ParseRewards(acc.rewards), acc.pool, epoch)

\* BlockfrostProvider.GetDelegation after the address check.
BlockfrostDelegation(b) ==
    IF b.acct.err = "notfound" THEN DgRet(NoDelegation, "nil")
    ELSE IF b.acct.err # "nil" THEN DgRet(NoDelegation, b.acct.err)
    ELSE DgRet(adaptBlockfrostAccountToDelegation(b.acct), "nil")

\* MaestroProvider.GetDelegation after the address check: the answer to
\* StakeAccountInformation. An SDK error is returned wrapped; otherwise the block
\* named by the answer is asked for.
MaestroAccountStep(b) ==
    IF b.acct.err # "nil"
    THEN [pc |-> "returned", ret |-> DgRet(NoDelegation, "other")]
    ELSE [pc |-> "block", ret |-> NoDgRet]

\* MaestroProvider.GetDelegation: the answer to BlockInfo.
MaestroBlockStep(b) ==
    IF b.blockErr # "nil" THEN DgRet(NoDelegation, "other")
    ELSE DgRet(adaptMaestroDelegation(b.acct, b.epoch), "nil")

\* KupmiosProvider.GetDelegation after the address check.
KupmiosDelegation(b) ==
    IF b.acct.err # "nil" THEN DgRet(NoDelegation, "other")
    ELSE DgRet(Delegation(b.acct.pool # "", ParseRewards(b.acct.rewards),
                          b.acct.pool, 0), "nil")

\* A call of GetDelegation, up to its first backend request.
GetDelegation(p, b) ==
    /\ AllIdle
    /\ dgProvider' = p
    /\ dgBackend' = b
    /\ IF p = "utxorpc"
       THEN dgPc' = "returned" /\ dgRet' = DgRet(NoDelegation, "notimplemented")
       ELSE IF ~StakeAddrOk(p, b.addrKind)
       THEN dgPc' = "returned" /\ dgRet' = DgRet(NoDelegation, "invalidAddress")
       ELSE dgPc' = "request" /\ dgRet' = NoDgRet
    /\ UNCHANGED <<dgLog, coreVars, unVars, sbVars, evVars, obVars>>

\* One entry of dgLog: the backend request answered, and how.
DgContact(request, err) == [request |-> request, err |-> err]

\* Blockfrost and Kupmios answer the account request and GetDelegation returns.
DelegationReturns ==
    /\ dgPc = "request"
    /\ dgProvider \in {"blockfrost", "kupmios"}
    /\ dgLog' = Append(dgLog, DgContact("account", dgBackend.acct.err))
    /\ dgRet' = IF dgProvider = "blockfrost" THEN BlockfrostDelegation(dgBackend)
                ELSE KupmiosDelegation(dgBackend)
    /\ dgPc' = "returned"
    /\ UNCHANGED <<dgProvider, dgBackend, coreVars, unVars, sbVars, evVars, obVars>>

\* Maestro answers StakeAccountInformation.
MaestroAccount ==
    /\ dgPc = "request"
    /\ dgProvider = "maestro"
    /\ LET step == MaestroAccountStep(dgBackend) IN
       /\ dgLog' = Append(dgLog, DgContact("account", dgBackend.acct.err))
       /\ dgPc' = step.pc
       /\ dgRet' = step.ret
    /\ UNCHANGED <<dgProvider, dgBackend, coreVars, unVars, sbVars, evVars, obVars>>

\* Maestro answers BlockInfo and GetDelegation returns.
MaestroBlock ==
    /\ dgPc = "block"
    /\ dgLog' = Append(dgLog, DgContact("block", dgBackend.blockErr))
    /\ dgRet' = MaestroBlockStep(dgBackend)
    /\ dgPc' = "returned"
    /\ UNCHANGED <<dgProvider, dgBackend, coreVars, unVars, sbVars, evVars, obVars>>

\* The accounts the model draws from.
Accounts(p) ==
    { [err |-> e, active |-> FALSE, pool |-> "", rewards |-> "0"] :
      e \in {"notfound", "other"} } \cup
    { [err |-> "nil", active |-> a, pool |-> pl, rewards |-> r] :
      a \in BOOLEAN, pl \in {"", "pool1"},
      r \in (IF p = "blockfrost" THEN {"", "0", "5", "x"} ELSE {"0", "5"}) }
DgBackends(p) ==
    [addrKind : AddrKinds, acct : Accounts(p),
     blockErr : (IF p = "maestro" THEN {"nil", "other"} ELSE {"nil"}),
     epoch : {7}]

InitDelegation ==
    /\ dgProvider = "none"
    /\ dgPc = "idle"
    /\ dgBackend = [addrKind |-> "stake1",
                    acct |-> [err |-> "notfound", active |-> FALSE, pool |-> "",
                              rewards |-> "0"],
                    blockErr |-> "nil", epoch |-> 7]
    /\ dgLog = <<>>
    /\ dgRet = NoDgRet

StartDelegation ==
    /\ AllIdle
    /\ \E p \in Providers : \E b \in DgBackends(p) : GetDelegation(p, b)

NextDelegation ==
    \/ StartDelegation
    \/ DelegationReturns
    \/ MaestroAccount
    \/ MaestroBlock

----------------------------------------------------------------------------
(* SubmitTx *)

SbRet(hash, err) == [hash |-> hash, err |-> err]
NoSbRet == SbRet("", "unset")

\* How one endpoint answers a submission: ok is a 2xx answer without transport
\* error (for Ogmios: no error and error code 0), hash is the body it carries,
\* and status404 tells a refusal by status 404 from every other refusal.
Answer(ok, hash) == [ok |-> ok, hash |-> hash, status404 |-> FALSE]
Refused == Answer(FALSE, "")
Refused404 == [ok |-> FALSE, hash |-> "", status404 |-> TRUE]
Answers == {Refused, Refused404, Answer(TRUE, ""), Answer(TRUE, "h")}

\* One entry of sbLog; the default endpoint is endpoint 0.
Contact(endpoint, ans) == [endpoint |-> endpoint, ok |-> ans.ok, hash |-> ans.hash]

SbActive == sbPc \in {"custom", "default", "request"}

\* A call of SubmitTx, up to its first request. Blockfrost goes through its
\* customSubmissionEndpoints first when it has any.
SubmitTx(p, b) ==
    /\ AllIdle
    /\ sbProvider' = p
    /\ sbBackend' = b
    /\ sbIdx' = 1
    /\ sbPc' = IF p # "blockfrost" THEN "request"
               ELSE IF Len(b.custom) > 0 THEN "custom" ELSE "default"
    /\ UNCHANGED <<sbLog, sbRet, coreVars, unVars, dgVars, evVars, obVars>>

\* The caller cancels the context while SubmitTx is running.
SbCancel ==
    /\ SbActive
    /\ ~ctxDone
    /\ ctxDone' = TRUE
    /\ UNCHANGED <<awVars, lsVars, orVars, callVars>>

\* doCustomSubmit against one endpoint, and what the loop makes of it: the call
\* returns on a nil error with a non-empty hash, and goes on otherwise.
CustomSubmitStep(ans, idx, n) ==
    IF ans.ok /\ ans.hash # ""
    THEN [pc |-> "returned", ret |-> SbRet(ans.hash, "nil"), idx |-> idx]
    ELSE IF idx = n
    THEN [pc |-> "default", ret |-> NoSbRet, idx |-> idx]
    ELSE [pc |-> "custom", ret |-> NoSbRet, idx |-> idx + 1]

CustomSubmit ==
    /\ sbPc = "custom"
    /\ LET ans == IF ctxDone THEN Refused ELSE sbBackend.custom[sbIdx]
           step == CustomSubmitStep(ans, sbIdx, Len(sbBackend.custom)) IN
       /\ sbLog' = Append(sbLog, Contact(sbIdx, ans))
       /\ sbPc' = step.pc
       /\ sbRet' = step.ret
       /\ sbIdx' = step.idx
    /\ UNCHANGED <<sbProvider, sbBackend, coreVars, unVars, dgVars, evVars, obVars>>

\* BlockfrostProvider.SubmitTx: the POST to /tx/submit and what follows it. The
\* error of doRequest is passed on wrapped, and doRequest wraps
\* connector.ErrNotFound on a status 404.
DefaultSubmitStep(ans, done) ==
    IF done THEN SbRet("", "ctx")
    ELSE IF ~ans.ok THEN SbRet("", IF ans.status404 THEN "notfound" ELSE "other")
    ELSE IF ans.hash = "" THEN SbRet("", "other")
    ELSE SbRet(ans.hash, "nil")

DefaultSubmit ==
    /\ sbPc = "default"
    /\ LET ans == IF ctxDone THEN Refused ELSE sbBackend.default IN
       /\ sbLog' = Append(sbLog, Contact(0, ans))
       /\ sbRet' = DefaultSubmitStep(ans, ctxDone)
    /\ sbPc' = "returned"
    /\ UNCHANGED <<sbProvider, sbBackend, sbIdx, coreVars, unVars, dgVars, evVars, obVars>>

\* MaestroProvider.SubmitTx after the SDK call (which takes no context).
MaestroSubmit(ans) ==
    IF ~ans.ok THEN SbRet("", "other")
    ELSE IF ans.hash = "" THEN SbRet("", "other")
    ELSE SbRet(ans.hash, "nil")

\* KupmiosProvider.SubmitTx after ogmigoClient.SubmitTx: the error is formatted
\* from the answer's message, the id is returned as it is.
KupmiosSubmit(ans, done) ==
    IF done \/ ~ans.ok THEN SbRet("", "other") ELSE SbRet(ans.hash, "nil")

\* UtxorpcProvider.SubmitTx after SubmitTxWithContext: resp.Msg.String().
UtxorpcSubmit(ans, done) ==
    IF done THEN SbRet("", "ctx")
    ELSE IF ~ans.ok THEN SbRet("", "other")
    ELSE SbRet(ans.hash, "nil")

SubmitRequest ==
    /\ sbPc = "request"
    /\ LET done == ctxDone /\ CtxAware(sbProvider)
           ans == IF done THEN Refused ELSE sbBackend.default IN
       /\ sbLog' = Append(sbLog, Contact(0, ans))
       /\ sbRet' = CASE sbProvider = "maestro" -> MaestroSubmit(ans)
                     [] sbProvider = "kupmios" -> KupmiosSubmit(ans, done)
                     [] OTHER                  -> UtxorpcSubmit(ans, done)
    /\ sbPc' = "returned"
    /\ UNCHANGED <<sbProvider, sbBackend, sbIdx, coreVars, unVars, dgVars, evVars, obVars>>

\* The endpoints the model draws from.
SbBackends(p) ==
    [custom : (IF p = "blockfrost"
               THEN UNION { [1..k -> Answers] : k \in 0..MaxEndpoints }
               ELSE {<<>>}),
     default : (IF p = "blockfrost" THEN Answers ELSE Answers \ {Refused404})]

InitSubmit ==
    /\ sbProvider = "none"
    /\ sbPc = "idle"
    /\ sbBackend = [custom |-> <<>>, default |-> Refused]
    /\ sbIdx = 1
    /\ sbLog = <<>>
    /\ sbRet = NoSbRet

StartSubmit ==
    /\ AllIdle
    /\ \E p \in Providers : \E b \in SbBackends(p) : SubmitTx(p, b)

NextSubmit ==
    \/ StartSubmit
    \/ SbCancel
    \/ CustomSubmit
    \/ DefaultSubmit
    \/ SubmitRequest

----------------------------------------------------------------------------
(* EvaluateTx *)

EvalRedeemer(tag, index) == [Tag |-> tag, Index |-> index]
EvRet(redeemers, err) == [redeemers |-> redeemers, err |-> err]
NoEvRet == EvRet(<<>>, "unset")

\* strings.ToLower on the purposes the model draws from.
ToLower(s) == IF s = "Spend" THEN "spend" ELSE s

\* An index that strconv.ParseUint rejects.
BadIndex == -1

\* The switch of adaptBlockfrostEvalResult: the tag of a purpose, "" when the
\* entry is skipped.
BlockfrostTag(tagStr) ==
    CASE ToLower(tagStr) = "spend"    -> "SPEND"
      [] ToLower(tagStr) = "mint"     -> "MINT"
      [] ToLower(tagStr) = "cert"     -> "CERT"
      [] ToLower(tagStr) = "reward"   -> "REWARD"
      [] ToLower(tagStr) = "withdraw" -> "REWARD"
      [] OTHER                        -> ""

\* The switch of adaptOgmigoEvalResult.
OgmigoPurpose(purpose) ==
    CASE ToLower(purpose) \in {"spend", "mint"}          -> ToLower(purpose)
      [] ToLower(purpose) \in {"certificate", "cert"}    -> "certificate"
      [] ToLower(purpose) \in {"withdrawal", "reward"}   -> "withdrawal"
      [] OTHER                                           -> ""

\* The switch of UtxorpcProvider.EvaluateTx.
UtxorpcPurpose(purpose) ==
    CASE purpose = "REDEEMER_PURPOSE_SPEND"   -> "spend"
      [] purpose = "REDEEMER_PURPOSE_MINT"    -> "mint"
      [] purpose = "REDEEMER_PURPOSE_CERT"    -> "certificate"
      [] purpose = "REDEEMER_PURPOSE_REWARD"  -> "withdrawal"
      [] purpose = "REDEEMER_PURPOSE_VOTE"    -> "vote"
      [] purpose = "REDEEMER_PURPOSE_PROPOSE" -> "proposal"
      [] OTHER                                -> ""

\* Writing the keys of entries into a Go map, one after the other: a key written
\* again keeps its place.
RECURSIVE IntoMap(_, _)
IntoMap(have, keys) ==
    IF keys = <<>> THEN have
    ELSE IntoMap(IF Head(keys) \in Range(have) THEN have
                 ELSE Append(have, Head(keys)), Tail(keys))

\* adaptBlockfrostEvalResult over the entries in the order the map yields them: a
\* key with an index that does not parse, or a purpose outside the switch, is
\* skipped; every other entry is appended.
RECURSIVE adaptBlockfrostEvalResult(_)
adaptBlockfrostEvalResult(entries) ==
    IF entries = <<>> THEN <<>>
    ELSE LET e == Head(entries)
             rest == adaptBlockfrostEvalResult(Tail(entries)) IN
         IF e.index = BadIndex \/ BlockfrostTag(e.purpose) = "" THEN rest
         ELSE <<EvalRedeemer(BlockfrostTag(e.purpose), e.index)>> \o rest

\* adaptOgmigoEvalResult: the keys written to the result map.
RECURSIVE OgmigoKeys(_)
OgmigoKeys(entries) ==
    IF entries = <<>> THEN <<>>
    ELSE LET e == Head(entries) IN
         IF OgmigoPurpose(e.purpose) = "" THEN OgmigoKeys(Tail(entries))
         ELSE <<EvalRedeemer(OgmigoPurpose(e.purpose), e.index)>>
              \o OgmigoKeys(Tail(entries))

adaptOgmigoEvalResult(resp) ==
    IF resp.err # "nil" THEN EvRet(<<>>, "other")
    ELSE IF Len(resp.entries) = 0 THEN EvRet(<<>>, "other")
    ELSE EvRet(IntoMap(<<>>, OgmigoKeys(resp.entries)), "nil")

\* MaestroProvider.EvaluateTx: the backend's tag is the key as it is.
MaestroEvaluate(resp) ==
    IF resp.err # "nil" THEN EvRet(<<>>, "other")
    ELSE LET Key(e) == EvalRedeemer(e.purpose, e.index) IN
         EvRet(IntoMap(<<>>, MapSeq(resp.entries, Key)), "nil")

\* UtxorpcProvider.EvaluateTx: the loop over the redeemers returns the map built
\* so far and an error at the first purpose outside the switch.
RECURSIVE UtxorpcKeys(_)
UtxorpcKeys(entries) ==
    IF entries = <<>> \/ UtxorpcPurpose(Head(entries).purpose) = "" THEN <<>>
    ELSE <<EvalRedeemer(UtxorpcPurpose(Head(entries).purpose), Head(entries).index)>>
         \o UtxorpcKeys(Tail(entries))

UtxorpcEvaluate(resp) ==
    IF resp.additional THEN EvRet(<<>>, "other")
    ELSE IF resp.err # "nil" THEN EvRet(<<>>, "other")
    ELSE EvRet(IntoMap(<<>>, UtxorpcKeys(resp.entries)),
               IF \E i \in 1..Len(resp.entries) :
                      UtxorpcPurpose(resp.entries[i].purpose) = ""
               THEN "other" ELSE "nil")

\* BlockfrostProvider.EvaluateTx after the request: a response that is not 200, or
\* that has no result, is an error.
BlockfrostEvaluate(resp, order) ==
    IF resp.err # "nil" THEN EvRet(<<>>, "other")
    ELSE EvRet(adaptBlockfrostEvalResult(order), "nil")

\* A call of EvaluateTx, up to its request.
EvaluateTx(p, resp) ==
    /\ AllIdle
    /\ evProvider' = p
    /\ evBackend' = resp
    /\ evPc' = "request"
    /\ UNCHANGED <<evRet, coreVars, unVars, dgVars, sbVars, obVars>>

\* The backend answers and EvaluateTx returns. Blockfrost ranges over a Go map,
\* which yields its entries in any order.
EvaluateReturns ==
    /\ evPc = "request"
    /\ \E order \in (IF evProvider = "blockfrost" THEN MapOrders(evBackend.entries)
                     ELSE {evBackend.entries}) :
          evRet' = CASE evProvider = "blockfrost" ->
                            BlockfrostEvaluate(evBackend, order)
                     [] evProvider = "maestro" -> MaestroEvaluate(evBackend)
                     [] evProvider = "kupmios" -> adaptOgmigoEvalResult(evBackend)
                     [] OTHER -> UtxorpcEvaluate(evBackend)
    /\ evPc' = "returned"
    /\ UNCHANGED <<evProvider, evBackend, coreVars, unVars, dgVars, sbVars, obVars>>

\* The purposes a backend may spell, and the responses the model draws from. A
\* Blockfrost response is a JSON object, so its keys are distinct.
EvPurposes(p) ==
    IF p = "utxorpc"
    THEN {"REDEEMER_PURPOSE_SPEND", "REDEEMER_PURPOSE_MINT", "REDEEMER_PURPOSE_CERT",
          "REDEEMER_PURPOSE_REWARD", "REDEEMER_PURPOSE_VOTE",
          "REDEEMER_PURPOSE_PROPOSE", "REDEEMER_PURPOSE_UNSPECIFIED"}
    ELSE {"spend", "Spend", "mint", "cert", "certificate", "reward", "withdraw",
          "withdrawal", "future"}
EvEntries(p) ==
    { [purpose |-> s, index |-> i] :
      s \in EvPurposes(p),
      i \in (IF p = "blockfrost" THEN {0, 1, BadIndex} ELSE {0, 1}) }
EvResponses(p) ==
    { [err |-> "other", entries |-> <<>>, additional |-> FALSE] } \cup
    { [err |-> "nil", entries |-> es, additional |-> a] :
      es \in { q \in UNION { [1..k -> EvEntries(p)] : k \in 0..MaxRedeemers } :
               p = "blockfrost" => \A i, j \in 1..Len(q) : q[i] = q[j] => i = j },
      a \in (IF p = "utxorpc" THEN BOOLEAN ELSE {FALSE}) }

InitEvaluate ==
    /\ evProvider = "none"
    /\ evPc = "idle"
    /\ evBackend = [err |-> "other", entries |-> <<>>, additional |-> FALSE]
    /\ evRet = NoEvRet

StartEvaluate ==
    /\ AllIdle
    /\ \E p \in Providers : \E resp \in EvResponses(p) : EvaluateTx(p, resp)

NextEvaluate ==
    \/ StartEvaluate
    \/ EvaluateReturns

----------------------------------------------------------------------------
(* Building one transaction output from a backend's description of it *)

Adapters == {"adaptBlockfrostAddressUTxOs", "adaptBlockfrostTxOutputToApolloUTxO",
             "adaptKupoMatchToApolloUTxO"}

\* The coin and the asset quantities an adapter's loop over the amount entries
\* ends with: an entry stores its parsed quantity, whatever it is, and an entry
\* that was passed over leaves the coin at 0 and the asset out.
Coin(in) == IF in.coin = "ok" THEN 2 ELSE 0
Assets(in) ==
    CASE in.asset = "zero" -> <<0>>
      [] in.asset = "pos"  -> <<3>>
      [] OTHER             -> <<>>

Output(in, post, datum, scriptRef) ==
    [IsPostAlonzo |-> post, Coin |-> Coin(in), Assets |-> Assets(in),
     HasAssets |-> Len(Assets(in)) > 0, Datum |-> datum, ScriptRef |-> scriptRef]

\* strconv.ParseInt fails on the quantity of some amount entry.
BadQuantity(in) == in.coin = "bad" \/ in.asset = "bad"
ObRet(utxos, err) == [utxos |-> utxos, err |-> err]
NoObRet == ObRet(<<>>, "unset")

\* isPostAlonzo of both Blockfrost adapters.
isPostAlonzo(in) == in.dataHash # "none" \/ in.inline # "none" \/ in.script # "none"

\* The datum option both Blockfrost adapters end with when neither returns early:
\* the hash if it decodes, then the inline datum over it if that decodes.
BlockfrostDatum(in) ==
    IF in.inline = "ok" THEN "inline"
    ELSE IF in.dataHash = "ok" THEN "hash"
    ELSE "nil"

\* One entry of obLog: the lookup an adapter made, and the error it ended with.
Lookup(part, err) == [part |-> part, err |-> err]

\* The error of a lookup: GetScriptCborByScriptHash, kugoClient.Datum or
\* kugoClient.Script. All three take ctx; a script the backend answers 404 for
\* is connector.ErrNotFound in Blockfrost's doRequest.
LookupErr(in, part, done) ==
    IF done THEN "ctx"
    ELSE IF part = "script"
    THEN CASE in.script = "notFound"  -> "notfound"
           [] in.script = "fetchFail" -> "other"
           [] OTHER                   -> "nil"
    ELSE IF in.inline = "fetchFail" THEN "other" ELSE "nil"

\* The error the lookup of part ended with in log, "nil" when it was not made.
ErrOf(log, part) ==
    IF \E i \in 1..Len(log) : log[i].part = part
    THEN (CHOOSE l \in Range(log) : l.part = part).err
    ELSE "nil"

\* The body of the loop of adaptBlockfrostAddressUTxOs for one item: an address
\* or a reference script that fails skips the item, a quantity or a datum that
\* fails to decode is passed over.
BlockfrostAddressOutput(in, scriptErr) ==
    IF ~in.addrOk THEN ObRet(<<>>, "nil")
    ELSE IF ~isPostAlonzo(in) THEN ObRet(<<Output(in, FALSE, "nil", FALSE)>>, "nil")
    ELSE IF in.script # "none" /\ scriptErr # "nil" THEN ObRet(<<>>, "nil")
    ELSE IF in.script = "badHex" THEN ObRet(<<>>, "nil")
    ELSE ObRet(<<Output(in, TRUE, BlockfrostDatum(in), in.script # "none")>>, "nil")

\* adaptBlockfrostTxOutputToApolloUTxO: the error of the script lookup is
\* returned wrapped.
adaptBlockfrostTxOutputToApolloUTxO(in, scriptErr) ==
    IF ~in.addrOk THEN ObRet(<<>>, "other")
    ELSE IF BadQuantity(in) THEN ObRet(<<>>, "other")
    ELSE IF ~isPostAlonzo(in) THEN ObRet(<<Output(in, FALSE, "nil", FALSE)>>, "nil")
    ELSE IF in.inline \in {"badHex", "badCbor"} THEN ObRet(<<>>, "other")
    ELSE IF in.script # "none" /\ scriptErr # "nil" THEN ObRet(<<>>, scriptErr)
    ELSE IF in.script = "badHex" THEN ObRet(<<>>, "other")
    ELSE ObRet(<<Output(in, TRUE, BlockfrostDatum(in), in.script # "none")>>, "nil")

\* adaptKupoMatchToApolloUTxO: the output is post-Alonzo from the start; the
\* datum is looked up when the match has a datum hash of type inline or datum,
\* and the hash stands in for a datum that was not obtained; a script that was
\* not obtained is left out.
adaptKupoMatchToApolloUTxO(in, datumErr, scriptErr) ==
    IF ~in.addrOk THEN ObRet(<<>>, "other")
    ELSE ObRet(<<Output(in, TRUE,
                        IF in.dataHash = "none" THEN "nil"
                        ELSE IF in.inline = "ok" /\ datumErr = "nil" THEN "inline"
                        ELSE "hash",
                        in.script = "ok" /\ scriptErr = "nil")>>, "nil")

\* The lookups an adapter makes for a description, in order: each is a backend
\* request the adapter waits for.
Asks(a, in) ==
    CASE a = "adaptBlockfrostAddressUTxOs" ->
             IF in.addrOk /\ in.script # "none" THEN <<"script">> ELSE <<>>
      [] a = "adaptBlockfrostTxOutputToApolloUTxO" ->
             IF /\ in.addrOk /\ ~BadQuantity(in)
                /\ in.inline \notin {"badHex", "badCbor"} /\ in.script # "none"
             THEN <<"script">> ELSE <<>>
      [] OTHER ->
             IF ~in.addrOk THEN <<>>
             ELSE (IF in.dataHash # "none" /\ in.inline # "none"
                   THEN <<"datum">> ELSE <<>>)
                  \o (IF in.script # "none" THEN <<"script">> ELSE <<>>)

\* An adapter is called on a backend description.
AdaptOutput(a, in) ==
    /\ AllIdle
    /\ obAdapter' = a
    /\ obIn' = in
    /\ obPc' = "adapting"
    /\ UNCHANGED <<obLog, obRet, coreVars, unVars, dgVars, sbVars, evVars>>

\* What adapter a builds from the description in, its lookups having ended as
\* log tells.
AdaptWith(a, in, log) ==
    CASE a = "adaptBlockfrostAddressUTxOs" ->
             BlockfrostAddressOutput(in, ErrOf(log, "script"))
      [] a = "adaptBlockfrostTxOutputToApolloUTxO" ->
             adaptBlockfrostTxOutputToApolloUTxO(in, ErrOf(log, "script"))
      [] OTHER ->
             adaptKupoMatchToApolloUTxO(in, ErrOf(log, "datum"), ErrOf(log, "script"))

\* The lookups of adapter a for in, all answered under a live context.
Answered(a, in) ==
    [i \in 1..Len(Asks(a, in)) |->
        Lookup(Asks(a, in)[i], LookupErr(in, Asks(a, in)[i], FALSE))]

\* What adapter a builds from the description in under a live context.
Adapt(a, in) == AdaptWith(a, in, Answered(a, in))

\* The caller cancels the context while an adapter is running.
ObCancel ==
    /\ obPc = "adapting"
    /\ ~ctxDone
    /\ ctxDone' = TRUE
    /\ UNCHANGED <<awVars, lsVars, orVars, callVars>>

\* The adapter's next lookup is answered; the adapter returns after its last.
OutputLookup ==
    /\ obPc = "adapting"
    /\ Len(obLog) < Len(Asks(obAdapter, obIn))
    /\ LET part == Asks(obAdapter, obIn)[Len(obLog) + 1]
           log == Append(obLog, Lookup(part, LookupErr(obIn, part, ctxDone))) IN
       /\ obLog' = log
       /\ IF Len(log) = Len(Asks(obAdapter, obIn))
          THEN obPc' = "returned" /\ obRet' = AdaptWith(obAdapter, obIn, log)
          ELSE obPc' = "adapting" /\ obRet' = obRet
    /\ UNCHANGED <<obAdapter, obIn, coreVars, unVars, dgVars, sbVars, evVars>>

\* An adapter that makes no lookup returns.
OutputReturns ==
    /\ obPc = "adapting"
    /\ Asks(obAdapter, obIn) = <<>>
    /\ obRet' = AdaptWith(obAdapter, obIn, <<>>)
    /\ obPc' = "returned"
    /\ UNCHANGED <<obAdapter, obIn, obLog, coreVars, unVars, dgVars, sbVars, evVars>>

\* The descriptions the model draws from. Kupo names a datum by its hash, so a
\* match with a datum has a datum hash; its datum and script lookups can also
\* fail or come back empty, and its quantities arrive as numbers. A script
\* lookup is served ("ok", or "badHex" when what it serves does not decode),
\* answered 404 ("notFound") or fails otherwise ("fetchFail").
ObInputs(a) ==
    { in \in [addrOk : BOOLEAN,
              coin : {"ok"} \cup
                     (IF a = "adaptKupoMatchToApolloUTxO" THEN {} ELSE {"bad"}),
              asset : {"none", "zero", "pos"} \cup
                      (IF a = "adaptKupoMatchToApolloUTxO" THEN {} ELSE {"bad"}),
              dataHash : {"none", "ok", "badHex"},
              inline : {"none", "ok", "badHex", "badCbor"} \cup
                       (IF a = "adaptKupoMatchToApolloUTxO"
                        THEN {"fetchFail", "empty"} ELSE {}),
              script : {"none", "ok", "fetchFail", "notFound", "badHex"}] :
      a = "adaptKupoMatchToApolloUTxO" =>
          (in.inline # "none" => in.dataHash # "none") }

InitOutput ==
    /\ obAdapter = "none"
    /\ obPc = "idle"
    /\ obIn = [addrOk |-> TRUE, coin |-> "ok", asset |-> "none",
               dataHash |-> "none", inline |-> "none", script |-> "none"]
    /\ obLog = <<>>
    /\ obRet = NoObRet

StartOutput ==
    /\ AllIdle
    /\ \E a \in Adapters : \E in \in ObInputs(a) : AdaptOutput(a, in)

NextOutput ==
    \/ StartOutput
    \/ ObCancel
    \/ OutputLookup
    \/ OutputReturns

----------------------------------------------------------------------------
(* parseUnit *)

\* A unit is a string: a sequence of characters.
Lovelace == <<"l", "o", "v", "e", "l", "a", "c", "e">>

UnRet(policyID, assetNameHex, err) ==
    [policyID |-> policyID, assetNameHex |-> assetNameHex, err |-> err]
NoUnRet == UnRet(<<>>, <<>>, "unset")

\* The place of the first "." of s, 0 when it has none.
IndexOfDot(s) ==
    IF \E i \in 1..Len(s) : s[i] = "."
    THEN CHOOSE i \in 1..Len(s) : s[i] = "." /\ \A j \in 1..(i - 1) : s[j] # "."
    ELSE 0

\* strings.SplitN(unitStr, ".", 2)
SplitN2(s) ==
    IF IndexOfDot(s) = 0 THEN <<s>>
    ELSE <<SubSeq(s, 1, IndexOfDot(s) - 1), SubSeq(s, IndexOfDot(s) + 1, Len(s))>>

\* The mutant of parseUnit: a unit without separator is a policy id as a whole.
parseUnitWholeIsPolicy(unitStr) ==
    LET parts == SplitN2(unitStr) IN
    IF unitStr = Lovelace THEN UnRet(Lovelace, <<>>, "nil")
    ELSE IF Len(parts) = 2
    THEN IF Len(parts[1]) # PolicyLen THEN UnRet(<<>>, <<>>, "other")
         ELSE UnRet(parts[1], parts[2], "nil")
    ELSE IF Len(parts[1]) >= PolicyLen THEN UnRet(parts[1], <<>>, "nil")
    ELSE UnRet(<<>>, <<>>, "other")

parseUnit(unitStr) ==
    LET parts == SplitN2(unitStr) IN
    IF unitStr = Lovelace THEN UnRet(Lovelace, <<>>, "nil")
    ELSE IF Len(parts) = 2
    THEN IF Len(parts[1]) # PolicyLen THEN UnRet(<<>>, <<>>, "other")
         ELSE UnRet(parts[1], parts[2], "nil")
    ELSE IF Len(parts[1]) = PolicyLen THEN UnRet(parts[1], <<>>, "nil")
    ELSE IF Len(parts[1]) >= PolicyLen
    THEN UnRet(SubSeq(parts[1], 1, PolicyLen),
               SubSeq(parts[1], PolicyLen + 1, Len(parts[1])), "nil")
    ELSE UnRet(<<>>, <<>>, "other")

\* The unit EvaluateTx writes for a policy id and an asset name: the policy id
\* alone when the name is empty, the two joined with "." otherwise.
encodeUnit(p, a) == IF a = <<>> THEN p ELSE p \o <<".">> \o a

\* The unit a backend reports for an asset: policy id and name without
\* separator, which the adapters cut at offset 56.
BackendUnit(p, a) == p \o a

\* A call of parseUnit.
ParseUnitCall(in) ==
    /\ AllIdle
    /\ unIn' = in
    /\ unPc' = "parsing"
    /\ UNCHANGED <<unRet, coreVars, dgVars, sbVars, evVars, obVars>>

ParseUnitReturns ==
    /\ unPc = "parsing"
    /\ unRet' = parseUnit(unIn.unit)
    /\ unPc' = "returned"
    /\ UNCHANGED <<unIn, coreVars, dgVars, sbVars, evVars, obVars>>

\* The strings the model draws from: n characters c, the k-th replaced by d.
Fill(n, c, d, k) == [i \in 1..n |-> IF i = k THEN d ELSE c]
HexChars == {"0", "a", "f"}
OtherChars == {"g", "Z"}
Strings(lens, chars) ==
    UNION { { Fill(n, c, d, k) : c \in chars, d \in chars, k \in {1, n} } :
            n \in lens }

\* Policy ids of exactly 56 hex characters, and asset names of 0 to 32 bytes in hex.
Policies == Strings({PolicyLen}, HexChars)
NameLens == {0, 2, 4, PolicyLen, 2 * MaxNameBytes}
Names == Strings(NameLens, HexChars)

\* Prefixes that are no policy id: too short, too long, or not hex.
BadPrefixes ==
    Strings({PolicyLen - 1, PolicyLen + 1}, HexChars)
        \cup (Strings({PolicyLen}, HexChars \cup OtherChars) \ Policies)

\* A unit with the parts it was written from; form tells who wrote it:
\* "encoded" by encodeUnit, "backend" by a backend, "other" by neither.
UnInput(unit, p, a, form) == [unit |-> unit, policy |-> p, name |-> a, form |-> form]
UnInputs ==
    { UnInput(encodeUnit(p, a), p, a, "encoded") : p \in Policies, a \in Names }
    \cup { UnInput(BackendUnit(p, a), p, a, "backend") :
           p \in Policies, a \in Names }
    \cup { UnInput(p \o (IF sep THEN <<".">> ELSE <<>>) \o a, p, a, "other") :
           p \in BadPrefixes, a \in Strings({0, 2}, HexChars), sep \in BOOLEAN }
    \cup { UnInput(Lovelace, <<>>, <<>>, "other") }

InitUnit ==
    /\ unPc = "idle"
    /\ unIn = UnInput(Lovelace, <<>>, <<>>, "other")
    /\ unRet = NoUnRet

StartUnit ==
    /\ AllIdle
    /\ \E in \in UnInputs : ParseUnitCall(in)

NextUnit ==
    \/ StartUnit
    \/ ParseUnitReturns

----------------------------------------------------------------------------
Init ==
    /\ ctxDone = FALSE
    /\ InitAwait
    /\ InitList
    /\ InitOutRef
    /\ InitDelegation
    /\ InitSubmit
    /\ InitEvaluate
    /\ InitOutput
    /\ InitUnit

Next == NextAwait \/ NextList \/ NextOutRef \/ NextDelegation \/ NextSubmit
        \/ NextEvaluate \/ NextOutput \/ NextUnit

Spec == Init /\ [][Next]_vars
SpecAwait == Init /\ [][NextAwait]_vars
SpecList == Init /\ [][NextList]_vars
SpecOutRef == Init /\ [][NextOutRef]_vars
SpecFanOut == Init /\ [][NextFanOut]_vars /\ FairFanOut
SpecDelegation == Init /\ [][NextDelegation]_vars
SpecSubmit == Init /\ [][NextSubmit]_vars
SpecEvaluate == Init /\ [][NextEvaluate]_vars
SpecOutput == Init /\ [][NextOutput]_vars
SpecUnit == Init /\ [][NextUnit]_vars

----------------------------------------------------------------------------
(* Claims about AwaitTx (checked under SpecAwait) *)

AwReturned == awPc = "returned"
AwLast == awLog[Len(awLog)]
AwCancelled == Ret(FALSE, "ctx")
AwConfirmed == Ret(TRUE, "nil")

\* C1: in the AwaitTx of Blockfrost, Maestro and Kupmios, when the context is
\* cancelled while the poller is Waiting (in the select between ticks, or in
\* the existence check of a tick), AwaitTx returns false with
\* a cancellation error, and it never returns true unless a check found the
\* transaction.
C1_CancelWhileWaitingIsCancelled ==
    /\ (AwReturned /\ awProvider \in TickerProviders
        /\ awCancelPc \in {"select", "request"}) => awRet = AwCancelled
    /\ (AwReturned /\ awProvider \in TickerProviders /\ awRet.ok) =>
          \E i \in 1..Len(awLog) : Positive(awProvider, awLog[i].resp)

\* C2: an existence check that fails with an error other than not-found ends the
\* poll: it is the last check issued and AwaitTx has returned false with an error.
C2_HardErrorEndsPoll ==
    \A i \in 1..Len(awLog) :
        awLog[i].resp \in {"error", "ctxerr"} =>
            /\ i = Len(awLog)
            /\ AwReturned
            /\ ~awRet.ok
            /\ awRet.err \notin {"nil", "unset"}

\* C3 (as stated): once a check reports the transaction found/confirmed, AwaitTx
\* returns (true, nil), whatever happens afterwards.
C3_ConfirmedIsTerminal ==
    (AwReturned /\ Len(awLog) > 0 /\ Positive(awProvider, AwLast.resp)) =>
        awRet = AwConfirmed

\* C3 (amended): a found/confirmed answer is the last check issued and never ends
\* as Failed; AwaitTx then returns (true, nil), except that Blockfrost, which waits
\* one more second after the answer, returns (false, ctx.Err()) when the context is
\* cancelled during that wait.
C3_ConfirmedUnlessCancelledInSettle ==
    \A i \in 1..Len(awLog) :
        Positive(awProvider, awLog[i].resp) =>
            /\ i = Len(awLog)
            /\ awPc \in {"settle", "returned"}
            /\ awPc = "settle" => awProvider = "blockfrost"
            /\ AwReturned =>
                  \/ awRet = AwConfirmed
                  \/ awProvider = "blockfrost" /\ ctxDone /\ awRet = AwCancelled

\* C3 witness: Blockfrost saw a block hash, the context was cancelled during the
\* one-second wait, and the call returned.
C3_Witness ==
    /\ AwReturned
    /\ awProvider = "blockfrost"
    /\ Len(awLog) > 0
    /\ AwLast.resp = "confirmed"
    /\ awCancelPc = "settle"

----------------------------------------------------------------------------
(* Listing operations: what the backend holds, as a caller would count it  *)

LsReturned == lsPc = "returned"
LsListing == lsOp \in {"GetUtxosByAddress", "GetUtxosWithUnit"}

\* The first page of a page-number backend that is shorter than a full page.
FirstShort(pages) ==
    CHOOSE i \in 1..Len(pages) :
        /\ pages[i] < PageSize
        /\ \A j \in 1..(i - 1) : pages[j] >= PageSize

RECURSIVE ConcatPages(_, _)
ConcatPages(b, n) == IF n = 0 THEN <<>> ELSE ConcatPages(b, n - 1) \o Items(b, n)

\* The items of the pages the requests reqs (cursors) asked for, in request order.
RECURSIVE FetchedBy(_, _)
FetchedBy(b, reqs) ==
    IF reqs = <<>> THEN <<>>
    ELSE Items(b, PageOfCursor(Head(reqs))) \o FetchedBy(b, Tail(reqs))

\* C4: Blockfrost GetUtxosByAddress / GetUtxosWithUnit request pages 1, 2, ... in
\* order, stop after the first page with fewer than 100 items, and return exactly
\* one UTxO per backend item of the pages fetched, in page order.
C4_PageWalkReturnsEveryItem ==
    (/\ lsProvider = "blockfrost" /\ LsListing /\ LsReturned
     /\ lsRet.err = "nil" /\ lsBackend.fail.at # 1)
    => LET last == FirstShort(lsBackend.pages) IN
       /\ lsReq = [i \in 1..last |-> i]
       /\ lsRet.utxos = MapSeq(ConcatPages(lsBackend, last), Utxo)

\* C5: in the Maestro cursor walk the first request carries no cursor, each
\* follow-up request carries the NextCursor of the response just before it, the
\* walk goes on exactly while the last NextCursor is not empty, and a call that
\* returns without error returns the items of every page fetched, in order.
C5_CursorWalkIsComplete ==
    (lsProvider = "maestro" /\ lsReq # <<>>)
    => /\ lsReq[1] = NoCursor
       /\ \A i \in 2..Len(lsReq) : lsReq[i] = lsResp[i - 1]
       /\ \A i \in 1..(Len(lsResp) - 1) : lsResp[i] # NoCursor
       /\ lsPc = "paging" => lsResp[Len(lsResp)] # NoCursor
       /\ (LsReturned /\ LsListing /\ lsRet.err = "nil")
          => /\ lsResp[Len(lsResp)] = NoCursor
             /\ Len(lsReq) = Len(lsBackend.pages)
             /\ lsRet.utxos = MapSeq(FetchedBy(lsBackend, lsReq), Utxo)

\* C5 witness: a Maestro listing of three chained pages returned all their items.
C5_Witness ==
    /\ lsProvider = "maestro" /\ LsListing /\ LsReturned /\ lsRet.err = "nil"
    /\ Len(lsReq) = 3
    /\ Len(lsRet.utxos) >= 3
    /\ lsBackend.flaw.kind = "badTxHash"

\* C6: in every adapter's GetUtxosByAddress and GetUtxosWithUnit, a not-found
\* answer to the first request yields an empty list and a nil error.
C6_FirstNotFoundIsEmpty ==
    (/\ LsListing /\ LsReturned /\ Len(lsReq) = 1
     /\ lsBackend.fail.at = 1 /\ lsBackend.fail.kind = "notfound")
    => lsRet = ListRet(<<>>, "nil")

RECURSIVE SumSeq(_)
SumSeq(s) == IF s = <<>> THEN 0 ELSE Head(s) + SumSeq(Tail(s))

\* The UTxOs that hold the unit at its single holder address.
UtxosAtHolder(p, b) ==
    CASE p = "blockfrost" -> Len(ConcatPages(b, FirstShort(b.pages)))
      [] p = "maestro"    -> SumSeq(b.pages)
      [] OTHER            -> b.pages[1]

\* C10: GetUtxoByUnit returns a UTxO only when exactly one address holds the unit
\* and exactly one UTxO holds it there; with two or more holders, or two or more
\* UTxOs at the holder, it returns an error.
C10_AmbiguousUnitIsAnError ==
    (LsReturned /\ lsOp = "GetUtxoByUnit" /\ lsRet.err = "nil")
    => /\ lsBackend.holders.n = 1
       /\ UtxosAtHolder(lsProvider, lsBackend) = 1

----------------------------------------------------------------------------
(* GetUtxosByOutRef: what a caller may rely on                             *)

OrReturned == orPc = "returned"

\* Some backend fetch of the call ended with an error other than not-found.
HardFetchError ==
    \E i \in 1..Len(orLog) : orLog[i].err \notin {"nil", "notfound"}

\* No reference asked for names an output that fails to adapt, be it for the
\* output itself or, in Blockfrost, for a reference script the backend does not
\* serve.
AllAdapt ==
    \A i \in 1..Len(outRefs) :
        /\ ~Bad(orBackend, outRefs[i])
        /\ (orProvider = "blockfrost" /\ HasScript(orBackend, outRefs[i]))
              => TxOf(orBackend, outRefs[i].txHash).script = "nil"

\* C7: Blockfrost GetUtxosByOutRef, whatever the order in which the concurrent
\* fetches complete: a call that returns a result returns, in request order,
\* exactly one UTxO for every reference whose transaction was fetched and has an
\* output at the reference's index, and none for a reference whose transaction
\* fetch reported not-found.
C7_FanOutResolvesEveryRef ==
    (orProvider = "blockfrost" /\ OrReturned /\ orRet.err = "nil" /\ outRefs # <<>>)
    => LET Got(r) == /\ task[r.txHash].err = "nil"
                     /\ r.index \in TxOf(orBackend, r.txHash).outs
       IN /\ \A h \in DOMAIN task : task[h].err \in {"nil", "notfound"}
          /\ orRet.utxos = MapSeq(SelectSeq(outRefs, Got), RefUtxo)
          /\ \A i \in 1..Len(orRet.utxos) :
                 task[orRet.utxos[i].txIn[1]].err # "notfound"

\* C7 witness: three references over two transactions, the transaction referenced
\* last fetched first and not found, the other one's two references resolved.
C7_Witness ==
    /\ orProvider = "blockfrost" /\ OrReturned /\ orRet.err = "nil"
    /\ Len(outRefs) = 3
    /\ Cardinality(uniqueTxHashes(outRefs)) = 2
    /\ orLog[1].txHash = outRefs[3].txHash
    /\ orLog[1].err = "notfound"
    /\ Len(orRet.utxos) = 2

\* C8: in Blockfrost and Kupmios, GetUtxosByOutRef returns an error, and no
\* result, if and only if some fetch failed with an error other than not-found.
C8_ErrorIffHardFetchError ==
    (orProvider \in {"blockfrost", "kupmios"} /\ OrReturned /\ AllAdapt)
    => /\ orRet.err # "nil" <=> HardFetchError
       /\ orRet.err # "nil" => orRet.utxos = <<>>

\* C9: in every adapter, when no lookup fails with anything but not-found, the
\* call returns a nil error and the references that resolve, the not-found ones
\* left out.
C9_NotFoundRefIsLeftOut ==
    (/\ OrReturned /\ AllAdapt /\ ~HardFetchError
     /\ \A i \in 1..Len(outRefs) : IsHex(outRefs[i].txHash))
    => /\ orRet.err = "nil"
       /\ Range(orRet.utxos) =
            { RefUtxo(outRefs[i]) :
              i \in { j \in 1..Len(outRefs) : Resolves(orBackend, outRefs[j]) } }

----------------------------------------------------------------------------
(* GetUtxoByUnit: a unit nobody holds                                      *)

LsByUnit == LsReturned /\ lsOp = "GetUtxoByUnit" /\ lsBackend.unitKind = "asset"

\* The backend answers the first request of GetUtxoByUnit with not-found.
ReportsNotFound ==
    IF lsProvider \in {"blockfrost", "maestro"}
    THEN lsBackend.holders.err = "notfound"
    ELSE lsBackend.fail.at = 1 /\ lsBackend.fail.kind = "notfound"

\* The backend answers without error, and with no holder or no UTxO of the unit.
AnswersEmpty ==
    IF lsProvider \in {"blockfrost", "maestro"}
    THEN /\ lsBackend.holders.err = "nil"
         /\ \/ lsBackend.holders.n = 0
            \/ /\ lsBackend.holders.n = 1
               /\ lsBackend.fail.at = 0
               /\ UtxosAtHolder(lsProvider, lsBackend) = 0
    ELSE lsBackend.fail.at # 1 /\ lsBackend.holders.n = 0

\* C11: GetUtxoByUnit on a unit with zero holders, whether the backend reports
\* not-found or answers with an empty list, returns an error for which
\* connector.IsNotFound is true, in every adapter.
C11_ZeroHoldersIsNotFound ==
    (LsByUnit /\ (ReportsNotFound \/ AnswersEmpty)) => lsRet.err = "notfound"

\* C12: GetUtxoByUnit returns a nil UTxO and a nil error when the unit is not
\* found and no other error occurred.
C12_NotFoundIsNilNil ==
    (LsByUnit /\ AnswersEmpty) => lsRet = ListRet(<<>>, "nil")

----------------------------------------------------------------------------
(* GetDelegation: an account the backend does not know                     *)

DgReturned == dgPc = "returned"

\* C13: in Blockfrost, Maestro and Kupmios, GetDelegation on a stake account the
\* backend reports as not found returns Delegation{Active: false, Rewards: 0,
\* PoolId: ""} with a nil error.
C13_UnknownAccountIsNotDelegated ==
    (/\ DgReturned /\ dgProvider \in {"blockfrost", "maestro", "kupmios"}
     /\ StakeAddrOk(dgProvider, dgBackend.addrKind)
     /\ dgBackend.acct.err = "notfound")
    => dgRet = DgRet(NoDelegation, "nil")

----------------------------------------------------------------------------
(* SubmitTx: the hash returned, and the endpoints contacted                *)

SbReturned == sbPc = "returned"

\* C14: SubmitTx never returns success with an empty transaction hash, in any
\* adapter.
C14_NoSuccessWithEmptyHash ==
    (SbReturned /\ sbRet.err = "nil") => sbRet.hash # ""

\* C15: Blockfrost SubmitTx with custom endpoints tries them one at a time in
\* configured order; after an endpoint has answered with success no further
\* endpoint, custom or default, is contacted; the default endpoint is contacted
\* only when every custom endpoint has been tried and has failed.
C15_FirstSuccessWins ==
    sbProvider = "blockfrost"
    => LET n == Len(sbBackend.custom) IN
       /\ \A i \in 1..Len(sbLog) :
              sbLog[i].endpoint = (IF i <= n THEN i ELSE 0)
       /\ Len(sbLog) <= n + 1
       /\ \A i \in 1..(Len(sbLog) - 1) : ~sbLog[i].ok

EvReturned == evPc = "returned"

\* The logical purpose a backend spelling stands for, "" for a spelling no
\* backend uses.
Logical(s) ==
    CASE s \in {"spend", "Spend", "REDEEMER_PURPOSE_SPEND"} -> "spend"
      [] s \in {"mint", "REDEEMER_PURPOSE_MINT"} -> "mint"
      [] s \in {"cert", "certificate", "REDEEMER_PURPOSE_CERT"} -> "cert"
      [] s \in {"withdraw", "withdrawal", "reward", "REDEEMER_PURPOSE_REWARD"} -> "reward"
      [] s = "REDEEMER_PURPOSE_VOTE" -> "vote"
      [] s = "REDEEMER_PURPOSE_PROPOSE" -> "propose"
      [] OTHER -> ""

\* The tag an adapter's results carry for a logical purpose: Blockfrost's are the
\* Redeemer tags, the other adapters' are map-key words.
CanonTag(p, l) ==
    IF p = "blockfrost"
    THEN CASE l = "spend" -> "SPEND" [] l = "mint" -> "MINT"
           [] l = "cert" -> "CERT" [] OTHER -> "REWARD"
    ELSE CASE l = "cert" -> "certificate" [] l = "reward" -> "withdrawal"
           [] l = "propose" -> "proposal" [] OTHER -> l

EvAnswered == EvReturned /\ evBackend.err = "nil" /\ ~evBackend.additional
EvEntry(i) == evBackend.entries[i]
EvGood(i) == Logical(EvEntry(i).purpose) # "" /\ EvEntry(i).index # BadIndex
EvResult == Range(evRet.redeemers)

\* C16: whichever backend evaluated and however it spelled the purpose, an
\* evaluation result holds a redeemer of a known logical purpose under the one
\* canonical tag of that purpose and its index.
C16_SpellingsShareOneTag ==
    (EvAnswered /\ evRet.err = "nil") =>
        \A i \in 1..Len(evBackend.entries) :
            EvGood(i) =>
                EvalRedeemer(CanonTag(evProvider, Logical(EvEntry(i).purpose)),
                             EvEntry(i).index) \in EvResult

\* C17: a redeemer of an unrecognized purpose is left out, and the other
\* redeemers are returned with a nil error.
C17_UnknownPurposeIsDropped ==
    (EvAnswered /\ \E i \in 1..Len(evBackend.entries) : Logical(EvEntry(i).purpose) = "")
        => /\ evRet.err = "nil"
           /\ \A r \in EvResult :
                  \E i \in 1..Len(evBackend.entries) :
                      /\ Logical(EvEntry(i).purpose) # ""
                      /\ r.Index = EvEntry(i).index
           /\ \A r \in EvResult : r.Tag # "future"

\* C18: a returned evaluation result holds every (Tag, Index) pair at most once.
C18_KeysAreUnique ==
    EvReturned =>
        \A i, j \in 1..Len(evRet.redeemers) :
            evRet.redeemers[i] = evRet.redeemers[j] => i = j

ObReturned == obPc = "returned"
ObBuilt == ObReturned /\ obRet.err = "nil" /\ Len(obRet.utxos) = 1
InlineUndecodable == obIn.inline \in {"badHex", "badCbor"}

\* C19: for each of the eight combinations of datum hash, inline datum and
\* reference script, the output built is post-Alonzo exactly when at least one
\* of the three is present, in both Blockfrost adapters and in the Kupmios one.
C19_PostAlonzoIffAnyPresent ==
    ObBuilt =>
        (obRet.utxos[1].IsPostAlonzo <=>
            (obIn.dataHash # "none" \/ obIn.inline # "none" \/ obIn.script # "none"))

\* C20: an inline datum that fails hex or CBOR decoding makes the adapter return
\* an error; no output is built from the datum hash or without a datum.
C20_UndecodableInlineDatumIsAnError ==
    (ObReturned /\ obIn.addrOk /\ InlineUndecodable)
        => obRet.err # "nil" /\ obRet.utxos = <<>>

\* A description every backend can give of an output, with nothing malformed.
WellFormed(in) ==
    /\ in.addrOk
    /\ in.dataHash \in {"none", "ok"}
    /\ in.inline \in {"none", "ok"}
    /\ in.script \in {"none", "ok"}
    /\ \A a \in Adapters : in \in ObInputs(a)

\* C21: the same logical output builds to the same canonical UTxO whichever
\* backend's adapter built it.
C21_SameOutputFromEveryBackend ==
    (ObReturned /\ WellFormed(obIn)) =>
        \A a \in Adapters : Adapt(a, obIn) = obRet

\* The pages a call without a request failure fetches.
PagesWalked == IF lsProvider = "blockfrost" THEN FirstShort(lsBackend.pages)
               ELSE Len(lsBackend.pages)

\* The backend delivered an item whose transaction hash is not hex.
BadHashDelivered ==
    /\ lsBackend.fail.at = 0
    /\ \E pg \in 1..PagesWalked :
           \E i \in 1..Len(Items(lsBackend, pg)) :
               Items(lsBackend, pg)[i].flaw = "badTxHash"

\* C22: a listing whose backend delivered an item with a malformed transaction
\* hash reports an error; the item is neither skipped nor returned with the
\* hash emptied.
C22_MalformedHashIsAnError ==
    (LsListing /\ LsReturned /\ BadHashDelivered) => lsRet.err # "nil"

\* C23: the Value of a UTxO an adapter returns holds no asset entry of
\* quantity 0.
C23_NoZeroQuantityAsset ==
    ObBuilt => \A i \in 1..Len(obRet.utxos[1].Assets) : obRet.utxos[1].Assets[i] # 0

\* C24: when the context is cancelled while an existence check of AwaitTx is in
\* flight, the check ends with the context's error instead of the backend's
\* answer, and AwaitTx returns false with a cancellation error.
C24_InFlightRequestObservesCancel ==
    (AwReturned /\ awCancelPc = "request") =>
        /\ \E i \in 1..Len(awLog) : awLog[i].resp = "ctxerr"
        /\ awRet = AwCancelled

UnReturned == unPc = "returned"

\* C25: parsing the unit written from a policy id of 56 hex characters and an
\* asset name of 0 to 32 bytes in hex, joined with "." (as encodeUnit writes it)
\* or directly (as a backend writes it), gives back that policy id and that name.
C25_UnitRoundTrip ==
    (UnReturned /\ unIn.form \in {"encoded", "backend"})
        => unRet = UnRet(unIn.policy, unIn.name, "nil")

\* C25 witness: a unit encoded with a name of 32 bytes has been parsed.
C25_Witness ==
    /\ UnReturned /\ unIn.form = "encoded"
    /\ Len(unIn.name) = 2 * MaxNameBytes
    /\ unIn.unit = encodeUnit(unIn.policy, unIn.name)

\* The policy prefix of a unit: what stands before the separator, or the first
\* 56 characters of a unit without separator.
PrefixOf(unit) ==
    IF IndexOfDot(unit) # 0 THEN SubSeq(unit, 1, IndexOfDot(unit) - 1)
    ELSE IF Len(unit) > PolicyLen THEN SubSeq(unit, 1, PolicyLen)
    ELSE unit
IsPolicy(s) == Len(s) = PolicyLen /\ \A i \in 1..Len(s) : s[i] \in HexChars

\* C26: parseUnit returns an error for every unit, other than lovelace, whose
\* policy prefix is not exactly 56 hexadecimal characters.
C26_BadPolicyPrefixIsAnError ==
    (UnReturned /\ unIn.unit # Lovelace /\ ~IsPolicy(PrefixOf(unIn.unit)))
        => unRet.err # "nil"

\* C27: AwaitTx returns (true, nil) only after a check whose answer reports the
\* transaction as included in a block.
C27_TrueOnlyWhenInBlock ==
    (AwReturned /\ awRet.ok) => \E i \in 1..Len(awLog) : awLog[i].resp = "confirmed"

\* C28: once the context is cancelled AwaitTx starts no existence check: no check
\* is issued from a select that found the context already done.
C28_NoCheckAfterCancel ==
    \A i \in 1..Len(awLog) : ~awLog[i].cancelledBefore

\* C29: when Blockfrost GetUtxosByOutRef returns, every fetch task it started
\* has finished.
C29_FanOutJoinedAtReturn ==
    (orProvider = "blockfrost" /\ OrReturned) =>
        \A h \in DOMAIN task : task[h].pc = "done"

AllTasksDone == \A h \in DOMAIN task : task[h].pc = "done"
SendHasRoom ==
    \A h \in DOMAIN task : task[h].pc = "send" => Len(resultChan) < ChanCap(task)
NoExtraReceive ==
    /\ received <= Cardinality(DOMAIN task)
    /\ (orPc = "collect" /\ resultChan = <<>>) => ~AllTasksDone

\* C30: in Blockfrost GetUtxosByOutRef a task that has its result always finds
\* room in the result channel, the collector never waits for a result no task is
\* left to send, and every task started sends its result and terminates, also
\* when the collector has returned early.
C30_NoTaskBlocksForever ==
    /\ [](SendHasRoom /\ NoExtraReceive)
    /\ (orPc = "collect") ~> AllTasksDone

\* C30 witness: the collector returned on a hard error before the other task
\* had sent, and that task has sent its result since.
C30_Witness ==
    /\ orProvider = "blockfrost" /\ OrReturned
    /\ orRet.err = "other"
    /\ received = 1
    /\ Cardinality(DOMAIN task) = 2
    /\ AllTasksDone
    /\ Len(resultChan) = 1

====
